---- MODULE Spec2Model ----
(***************************************************************************)
(* Atomic swap engine of mwc-wallet: the owner swap API                    *)
(* (libwallet/src/api_impl/owner_swap.rs), the BTC swap adapter            *)
(* (libwallet/src/swap/bitcoin/api.rs) and the Seller/Buyer state          *)
(* machines the adapter assembles in get_fsm.  The state handlers of the   *)
(* machines (swap/fsm/seller_swap.rs, buyer_swap.rs) and the trade store   *)
(* (swap/trades.rs) are modelled from the specification text.              *)
(***************************************************************************)
EXTENDS Integers, Sequences, FiniteSets, TLC

VARIABLES
    trades,     \* trades[w][id]: the persisted (Context, Swap) record of wallet w, or NoRec
    txlog,      \* txlog[w]: kernel tags of the wallet's tx log entries (a sequence)
    chain,      \* chain[id]: the transactions of trade id on the two chains
    mwc_tip,    \* height of the primary chain
    now,        \* wall clock
    net,        \* messages sent by message_sender and not lost: set of [id, kind]
    minted,     \* SwapIDs minted by swap_start so far
    last,       \* the last owner API call: operation, arguments, result
    budget,     \* adjustments of a trade to a named state that the model still follows
    wlock,      \* holder of the wallet-wide mutex of wallet "A" (0: free)
    pc,         \* pc[t]: position of API thread t inside its call
    loc,        \* loc[t]: locals of thread t (swap copy, respond, ...)
    timing,     \* the deadlines computed for the timing parameters of an offer
    keystore,   \* the active account of wallet "A" and the key each record is sealed with
    secondary,  \* the last query or transaction of the BTC adapter on a lock address
    reorged,    \* reorged[id]: whether a reorganisation has hit the locks of trade id
    persisted   \* the states stored for the trade that swap_list reads

vars == <<trades, txlog, chain, mwc_tip, now, net, minted, last, budget, wlock, pc, loc, timing, keystore, secondary, reorged, persisted>>

-----------------------------------------------------------------------------
(* Bounds of the model *)

MaxTime == 4
MaxTip == 2
MaxAdjust == 1

(* Trade parameters (SwapStartArgs) used by the explored trades *)
NeedConf == 2
MsgTime == 1
RedeemTime == 1
SafetyMargin == 1
BlockInterval == 1

MaxConf == NeedConf

Wallets == {"A", "B"}
Ids == {1, 2}
NoRec == [role |-> "none"]
None == -1

-----------------------------------------------------------------------------
(* States of the two machines, in the order get_fsm lists them *)

SellerStates ==
    << "SellerOfferCreated", "SellerSendingOffer", "SellerWaitingForAcceptanceMessage",
       "SellerWaitingForBuyerLock", "SellerPostingLockMwcSlate",
       "SellerWaitingForLockConfirmations", "SellerWaitingForInitRedeemMessage",
       "SellerSendingInitRedeemMessage", "SellerWaitingForBuyerToRedeemMwc",
       "SellerRedeemSecondaryCurrency", "SellerWaitingForRedeemConfirmations",
       "SellerSwapComplete", "SellerWaitingForRefundHeight", "SellerPostingRefundSlate",
       "SellerWaitingForRefundConfirmations", "SellerCancelledRefunded", "SellerCancelled" >>

BuyerStates ==
    << "BuyerOfferCreated", "BuyerSendingAcceptOfferMessage", "BuyerWaitingForSellerToLock",
       "BuyerPostingSecondaryToMultisigAccount", "BuyerWaitingForLockConfirmations",
       "BuyerSendingInitRedeemMessage", "BuyerWaitingForRespondRedeemMessage",
       "BuyerRedeemMwc", "BuyerWaitForRedeemMwcConfirmations", "BuyerSwapComplete",
       "BuyerWaitingForRefundTime", "BuyerPostingRefundForSecondary",
       "BuyerWaitingForRefundConfirmations", "BuyerCancelledRefunded", "BuyerCancelled" >>

Range(s) == {s[i] : i \in DOMAIN s}

IsSeller(swap) == swap.role = "Seller"

\* StateMachine::has_state for the machine get_fsm builds for this swap
HasState(swap, st) ==
    IF IsSeller(swap) THEN st \in Range(SellerStates) ELSE st \in Range(BuyerStates)

TerminalStates ==
    {"SellerSwapComplete", "SellerCancelledRefunded", "SellerCancelled",
     "BuyerSwapComplete", "BuyerCancelledRefunded", "BuyerCancelled"}

-----------------------------------------------------------------------------
(* Protocol times of a trade (Swap::get_time_* in swap/swap.rs)             *)

CeilDiv(a, b) == (a + b - 1) \div b

\* wall-clock deadline of the message exchange
TimeMessageExchange(started, msg) == started + msg

\* Swap::get_time_btc_lock: lock time of the secondary lock script
TimeBtcLock(started, msg, redeem, safety) == started + msg + 2 * redeem + safety

\* number of primary blocks until the refund slate's lock_height
RefundBlocks(msg, redeem, interval) == CeilDiv(msg + redeem, interval)

\* lock_height of the refund slate
MwcRefundHeight(tip0, msg, redeem, interval) == tip0 + RefundBlocks(msg, redeem, interval)

\* the refund height converted to wall time
TimeMwcRefund(started, msg, redeem, interval) ==
    started + RefundBlocks(msg, redeem, interval) * interval

SwapMsgDeadline(swap) == TimeMessageExchange(swap.started, MsgTime)
SwapBtcLock(swap) == TimeBtcLock(swap.started, MsgTime, RedeemTime, SafetyMargin)
SwapRefundHeight(swap) == MwcRefundHeight(swap.tip0, MsgTime, RedeemTime, BlockInterval)
SwapMwcRefundTime(swap) == TimeMwcRefund(swap.started, MsgTime, RedeemTime, BlockInterval)

-----------------------------------------------------------------------------
(* The two chains.  A transaction is -1 (never posted), 0 (in the mempool)  *)
(* or 1..MaxConf (its number of confirmations, saturating at MaxConf).      *)

SecondaryAmount == 2        \* swap.secondary_amount, in deposit units
BtcTip == MaxConf           \* secondary tip height used to turn confirmations into heights

NoChain ==
    [mwc_lock |-> None, mwc_redeem |-> None, mwc_refund |-> None,
     btc_lock |-> None, btc_amt |-> 0, btc_spent |-> "no",
     btc_redeem |-> None, btc_refund |-> None]

\* BtcNodeClient::unspent(lock address): the unspent outputs, height 0 for the mempool
Unspent(ch) ==
    IF ch.btc_spent = "no" /\ ch.btc_amt > 0 /\ ch.btc_lock >= 0
    THEN << [txid |-> 1, vout |-> 0, value |-> ch.btc_amt,
             height |-> IF ch.btc_lock = 0 THEN 0 ELSE BtcTip - ch.btc_lock + 1] >>
    ELSE << >>

\* a subtraction that does not saturate
SatSub_unsaturated(a, b) == a - b

\* u64::saturating_sub
SatSub(a, b) == IF a > b THEN a - b ELSE 0

RECURSIVE BalanceFold(_, _, _, _, _)
\* the loop of BtcSwapApi::btc_balance over the unspent outputs
BalanceFold(outputs, i, height, needed, acc) ==
    IF i > Len(outputs) THEN acc
    ELSE LET o == outputs[i] IN
         IF o.height = 0
         THEN BalanceFold(outputs, i + 1, height, needed,
                  [acc EXCEPT !.least = 0, !.pending = @ + o.value])
         ELSE LET confirmations == SatSub(height, o.height) + 1 IN
              IF confirmations >= needed
              THEN BalanceFold(outputs, i + 1, height, needed,
                       [acc EXCEPT !.confirmed = @ + o.value,
                                   !.outputs = Append(@, o)])
              ELSE BalanceFold(outputs, i + 1, height, needed,
                       [acc EXCEPT !.least = IF @ = None \/ confirmations < @
                                             THEN confirmations ELSE @,
                                   !.pending = @ + o.value,
                                   !.outputs = Append(@, o)])

\* BtcSwapApi::btc_balance: (pending, confirmed, least_confirmations, confirmed_outputs)
btc_balance(outputs, height, needed) ==
    LET r == BalanceFold(outputs, 1, height, needed,
                 [pending |-> 0, confirmed |-> 0, least |-> None, outputs |-> << >>])
    IN [r EXCEPT !.least = IF @ = None THEN 0 ELSE @]

\* get_slate_confirmation_number answering for a slate that is only in the mempool
get_slate_confirmation_number_mempool(c) == IF c >= 0 THEN c ELSE None

\* BtcSwapApi::get_slate_confirmation_number: None until the kernel (or output) is on chain
get_slate_confirmation_number(c) == IF c >= 1 THEN c ELSE None

\* BtcSwapApi::get_btc_confirmation_number: None without a stored txid or when the node
\* does not know the transaction, Some(0) in the mempool
get_btc_confirmation_number(stored, c) == IF stored THEN c ELSE None

RECURSIVE LockFold(_, _, _, _)
\* the loop of request_tx_confirmations over the outputs of the lock address
LockFold(outputs, i, tip, acc) ==
    IF i > Len(outputs) THEN acc
    ELSE LET o == outputs[i] IN
         IF o.height = 0
         THEN LockFold(outputs, i + 1, tip, [amount |-> acc.amount + o.value, least |-> 0])
         ELSE LET confirmations == SatSub(tip, o.height) + 1 IN
              LockFold(outputs, i + 1, tip,
                  [amount |-> acc.amount + o.value,
                   least |-> IF acc.least = None \/ confirmations < acc.least
                             THEN confirmations ELSE acc.least])

\* SwapApi::request_tx_confirmations (all RPCs answering)
request_tx_confirmations(swap, ch, tip) ==
    LET lock == IF swap.redeem_public
                THEN LockFold(Unspent(ch), 1, BtcTip, [amount |-> 0, least |-> None])
                ELSE [amount |-> 0, least |-> None]
    IN [mwc_tip |-> tip,
        mwc_lock_conf |-> get_slate_confirmation_number(ch.mwc_lock),
        mwc_redeem_conf |-> get_slate_confirmation_number(ch.mwc_redeem),
        mwc_refund_conf |-> get_slate_confirmation_number(ch.mwc_refund),
        secondary_lock_conf |-> lock.least,
        secondary_lock_amount |-> lock.amount,
        secondary_redeem_conf |-> get_btc_confirmation_number(swap.redeem_tx, ch.btc_redeem),
        secondary_refund_conf |-> get_btc_confirmation_number(swap.refund_tx, ch.btc_refund)]

-----------------------------------------------------------------------------
(* Trade records *)

\* SellApi::create_swap_offer: the Seller's record at swap_start
NewSellerSwap(lock_first, t, tip) ==
    [role |-> "Seller", state |-> "SellerOfferCreated", lock_first |-> lock_first,
     started |-> t, tip0 |-> tip,
     lock_slate |-> 1, redeem_slate |-> 0, refund_slate |-> 1,
     redeem_public |-> FALSE, redeem_tx |-> FALSE, refund_tx |-> FALSE,
     last_check_error |-> FALSE]

\* BuyApi::accept_swap_offer: the Buyer's record built from an Offer message
NewBuyerSwap(offer) ==
    [role |-> "Buyer", state |-> "BuyerOfferCreated", lock_first |-> offer.lock_first,
     started |-> offer.started, tip0 |-> offer.tip0,
     lock_slate |-> 2, redeem_slate |-> 1, refund_slate |-> 2,
     redeem_public |-> TRUE, redeem_tx |-> FALSE, refund_tx |-> FALSE,
     last_check_error |-> FALSE]

\* SellApi::calculate_redeem_secret succeeds once the record holds the final redeem kernel
RedeemSecretKnown(swap) == swap.redeem_slate = 3

-----------------------------------------------------------------------------
(* What the two nodes accept (PrimaryNodeClient::post_tx, BtcNodeClient::post_tx) *)

MwcAccepts(tx, swap, ch, tip) ==
    CASE tx = "mwc_lock"   -> swap.lock_slate = 2 /\ ch.mwc_lock = None
      [] tx = "mwc_redeem" -> /\ swap.redeem_slate >= 2
                              /\ ch.mwc_lock >= 1 /\ ch.mwc_redeem = None /\ ch.mwc_refund = None
      [] tx = "mwc_refund" -> /\ swap.refund_slate = 2
                              /\ ch.mwc_lock >= 1 /\ ch.mwc_redeem = None /\ ch.mwc_refund = None
                              /\ tip >= SwapRefundHeight(swap)
      [] OTHER -> FALSE

\* a secondary transaction spending `inputs` of the lock address
BtcAccepts(tx, inputs, swap, ch, t) ==
    /\ Len(inputs) > 0
    /\ ch.btc_spent = "no"
    /\ tx = "btc_refund" => t >= SwapBtcLock(swap)

PostEffect(ch, tx) ==
    CASE tx = "mwc_lock"   -> [ch EXCEPT !.mwc_lock = 0]
      [] tx = "mwc_redeem" -> [ch EXCEPT !.mwc_redeem = 0]
      [] tx = "mwc_refund" -> [ch EXCEPT !.mwc_refund = 0]
      [] tx = "btc_redeem" -> [ch EXCEPT !.btc_redeem = 0, !.btc_spent = "redeem"]
      [] tx = "btc_refund" -> [ch EXCEPT !.btc_refund = 0, !.btc_spent = "refund"]
      [] OTHER -> ch

-----------------------------------------------------------------------------
(* Secondary transactions of the BTC adapter.  Results are                   *)
(* [ok, err, swap, post]: post names the transaction the node accepted.      *)

Ok(swap, post) == [ok |-> TRUE, err |-> "", swap |-> swap, post |-> post]
Err(kind, swap) == [ok |-> FALSE, err |-> kind, swap |-> swap, post |-> "none"]

\* the place of output o in a list sorted by txid: behind every output whose txid is not
\* greater (slice::sort_by is stable)
InsertByTxid(sorted, o) ==
    LET k == Cardinality({i \in DOMAIN sorted : sorted[i].txid <= o.txid})
    IN SubSeq(sorted, 1, k) \o << o >> \o SubSeq(sorted, k + 1, Len(sorted))

RECURSIVE SortByTxid(_)
\* conf_outputs.sort_by(|a, b| a.out_point.txid.cmp(&b.out_point.txid))
SortByTxid(outputs) ==
    IF outputs = << >> THEN << >>
    ELSE InsertByTxid(SortByTxid(SubSeq(outputs, 1, Len(outputs) - 1)), outputs[Len(outputs)])

\* seller_build_redeem_tx from the balance query on: the inputs handed to build_redeem_tx
seller_redeem_inputs(outputs, height) ==
    LET b == btc_balance(outputs, height, 0) IN
    IF b.pending + b.confirmed = 0
    THEN [ok |-> FALSE, err |-> "Generic", inputs |-> << >>]
    ELSE [ok |-> TRUE, err |-> "", inputs |-> SortByTxid(b.outputs)]

\* buyer_refund from the balance query on: the inputs handed to refund_tx
buyer_refund_inputs(outputs, height) ==
    LET b == btc_balance(outputs, height, 0) IN
    IF b.pending + b.confirmed = 0
    THEN [ok |-> FALSE, err |-> "Generic", inputs |-> << >>]
    ELSE [ok |-> TRUE, err |-> "", inputs |-> b.outputs]

\* seller_build_redeem_tx without the call of calculate_redeem_secret
seller_build_redeem_tx_no_secret(swap, ch, rpc_fails) ==
    IF swap.redeem_tx THEN [ok |-> FALSE, err |-> "OneShot", inputs |-> << >>]
    ELSE IF rpc_fails THEN [ok |-> FALSE, err |-> "NodeError", inputs |-> << >>]
    ELSE seller_redeem_inputs(Unspent(ch), BtcTip)

\* seller_build_redeem_tx building the transaction again when redeem_tx is stored
seller_build_redeem_tx_repeatable(swap, ch, rpc_fails) ==
    IF ~RedeemSecretKnown(swap) THEN [ok |-> FALSE, err |-> "Generic", inputs |-> << >>]
    ELSE IF rpc_fails THEN [ok |-> FALSE, err |-> "NodeError", inputs |-> << >>]
    ELSE seller_redeem_inputs(Unspent(ch), BtcTip)

\* BtcSwapApi::seller_build_redeem_tx: the inputs of the redeem transaction, or an error
seller_build_redeem_tx(swap, ch, rpc_fails) ==
    IF ~RedeemSecretKnown(swap) THEN [ok |-> FALSE, err |-> "Generic", inputs |-> << >>]
    ELSE IF swap.redeem_tx THEN [ok |-> FALSE, err |-> "OneShot", inputs |-> << >>]
    ELSE IF rpc_fails THEN [ok |-> FALSE, err |-> "NodeError", inputs |-> << >>]
    ELSE seller_redeem_inputs(Unspent(ch), BtcTip)

\* publish_secondary_transaction storing the redeem transaction without post_tx
publish_secondary_transaction_unposted(swap, ch, t, retry, rpc_fails) ==
    IF ~swap.redeem_public THEN Err("UnexpectedAction", swap)
    ELSE LET tx == seller_build_redeem_tx(swap, ch, rpc_fails) IN
         IF ~tx.ok THEN Err(tx.err, swap)
         ELSE IF ~retry /\ swap.redeem_tx THEN Err("UnexpectedAction", swap)
         ELSE Ok([swap EXCEPT !.redeem_tx = TRUE], "none")

\* SwapApi::publish_secondary_transaction (Seller redeems the secondary lock)
publish_secondary_transaction(swap, ch, t, retry, rpc_fails) ==
    IF ~swap.redeem_public THEN Err("UnexpectedAction", swap)
    ELSE LET tx == seller_build_redeem_tx(swap, ch, rpc_fails) IN
         IF ~tx.ok THEN Err(tx.err, swap)
         ELSE IF ~BtcAccepts("btc_redeem", tx.inputs, swap, ch, t) THEN Err("NodeError", swap)
         ELSE IF ~retry /\ swap.redeem_tx THEN Err("UnexpectedAction", swap)
         ELSE Ok([swap EXCEPT !.redeem_tx = TRUE], "btc_redeem")

\* buyer_refund recording the txid of the refund before post_tx
buyer_refund_recorded_first(swap, ch, t, rpc_fails) ==
    IF rpc_fails THEN Err("NodeError", swap)
    ELSE LET tx == buyer_refund_inputs(Unspent(ch), BtcTip) IN
         IF ~tx.ok THEN Err(tx.err, swap)
         ELSE IF ~BtcAccepts("btc_refund", tx.inputs, swap, ch, t)
         THEN Err("NodeError", [swap EXCEPT !.refund_tx = TRUE])
         ELSE Ok([swap EXCEPT !.refund_tx = TRUE], "btc_refund")

\* BtcSwapApi::buyer_refund
buyer_refund(swap, ch, t, rpc_fails) ==
    IF rpc_fails THEN Err("NodeError", swap)
    ELSE LET tx == buyer_refund_inputs(Unspent(ch), BtcTip) IN
         IF ~tx.ok THEN Err(tx.err, swap)
         ELSE IF ~BtcAccepts("btc_refund", tx.inputs, swap, ch, t) THEN Err("NodeError", swap)
         ELSE Ok([swap EXCEPT !.refund_tx = TRUE], "btc_refund")

\* BtcSwapApi::post_secondary_refund_tx
post_secondary_refund_tx(swap, ch, t, has_address, rpc_fails) ==
    IF ~has_address THEN Err("Generic", swap)
    ELSE IF ~swap.redeem_public THEN Err("UnexpectedAction", swap)
    ELSE buyer_refund(swap, ch, t, rpc_fails)

-----------------------------------------------------------------------------
(* State handlers of the Seller and Buyer machines on Input::Check.          *)
(* A handler answers [next, action, swap]; action "none" is Option::None.    *)

R(next, action, swap) == [next |-> next, action |-> action, swap |-> swap]

LocksConfirmed(tc) ==
    /\ tc.mwc_lock_conf # None /\ tc.mwc_lock_conf >= NeedConf
    /\ tc.secondary_lock_conf # None /\ tc.secondary_lock_conf >= NeedConf
    /\ tc.secondary_lock_amount >= SecondaryAmount

SecondaryLockSeen(tc) ==
    tc.secondary_lock_conf # None /\ tc.secondary_lock_amount >= SecondaryAmount

\* Seller MUST NOT redeem secondary once now >= secondary_lock_time - redeem_time
SellerRedeemDeadlinePassed(swap, t) == t >= SwapBtcLock(swap) - RedeemTime

\* Buyer MUST NOT redeem primary once now >= primary_refund_time - redeem_time
BuyerRedeemDeadlinePassed(swap, t) == t >= SwapMwcRefundTime(swap) - RedeemTime

\* SellerCheck giving the trade up when the locks have lost their depth
SellerCheck_reorg_fatal(swap, tc, t) ==
    LET st == swap.state IN
    CASE st = "SellerOfferCreated" -> R("SellerSendingOffer", "none", swap)
      [] st = "SellerSendingOffer" ->
            IF t >= SwapMsgDeadline(swap) THEN R("SellerCancelled", "none", swap)
            ELSE R(st, "SellerSendOfferMessage", swap)
      [] st = "SellerWaitingForAcceptanceMessage" ->
            IF t >= SwapMsgDeadline(swap) THEN R("SellerCancelled", "none", swap)
            ELSE R(st, "SellerWaitingForOfferMessage", swap)
      [] st = "SellerWaitingForBuyerLock" ->
            IF swap.lock_first \/ SecondaryLockSeen(tc)
            THEN R("SellerPostingLockMwcSlate", "none", swap)
            ELSE IF t >= SwapMsgDeadline(swap) THEN R("SellerCancelled", "none", swap)
            ELSE R(st, "WaitForConfirmations", swap)
      [] st = "SellerPostingLockMwcSlate" ->
            IF tc.mwc_lock_conf # None
            THEN R("SellerWaitingForLockConfirmations", "none", swap)
            ELSE IF t >= SwapMsgDeadline(swap) THEN R("SellerCancelled", "none", swap)
            ELSE R(st, "SellerPublishMwcLockTx", swap)
      [] st = "SellerWaitingForLockConfirmations" ->
            IF LocksConfirmed(tc) /\ t < SwapMsgDeadline(swap)
            THEN R("SellerWaitingForInitRedeemMessage", "none", swap)
            ELSE IF t >= SwapMsgDeadline(swap)
            THEN R("SellerWaitingForRefundHeight", "none", swap)
            ELSE R(st, "WaitForConfirmations", swap)
      [] st = "SellerWaitingForInitRedeemMessage" ->
            IF t >= SwapMsgDeadline(swap)
            THEN R("SellerWaitingForRefundHeight", "none", swap)
            ELSE IF ~LocksConfirmed(tc)
            THEN R("SellerWaitingForRefundHeight", "none", swap)
            ELSE R(st, "SellerWaitingForInitRedeemMessage", swap)
      [] st = "SellerSendingInitRedeemMessage" ->
            IF t >= SwapMsgDeadline(swap)
            THEN R("SellerWaitingForRefundHeight", "none", swap)
            ELSE R(st, "SellerSendRedeemMessage", swap)
      [] st = "SellerWaitingForBuyerToRedeemMwc" ->
            IF tc.mwc_redeem_conf # None
            THEN R("SellerRedeemSecondaryCurrency", "none", [swap EXCEPT !.redeem_slate = 3])
            ELSE IF tc.mwc_tip >= SwapRefundHeight(swap)
            THEN R("SellerWaitingForRefundHeight", "none", swap)
            ELSE R(st, "WaitForConfirmations", swap)
      [] st = "SellerRedeemSecondaryCurrency" ->
            IF tc.secondary_redeem_conf # None
            THEN R("SellerWaitingForRedeemConfirmations", "none", swap)
            ELSE IF SellerRedeemDeadlinePassed(swap, t)
            THEN R("SellerWaitingForRefundHeight", "none", swap)
            ELSE R(st, "SellerPublishTxSecondaryRedeem", swap)
      [] st = "SellerWaitingForRedeemConfirmations" ->
            IF tc.secondary_redeem_conf # None /\ tc.secondary_redeem_conf >= NeedConf
            THEN R("SellerSwapComplete", "none", swap)
            ELSE R(st, "WaitForConfirmations", swap)
      [] st = "SellerWaitingForRefundHeight" ->
            IF tc.mwc_tip >= SwapRefundHeight(swap)
            THEN R("SellerPostingRefundSlate", "none", swap)
            ELSE R(st, "WaitForConfirmations", swap)
      [] st = "SellerPostingRefundSlate" ->
            IF tc.mwc_refund_conf # None
            THEN R("SellerWaitingForRefundConfirmations", "none", swap)
            ELSE R(st, "SellerPublishMwcRefundTx", swap)
      [] st = "SellerWaitingForRefundConfirmations" ->
            IF tc.mwc_refund_conf # None /\ tc.mwc_refund_conf >= NeedConf
            THEN R("SellerCancelledRefunded", "none", swap)
            ELSE R(st, "WaitForConfirmations", swap)
      [] OTHER -> R(st, "none", swap)

SellerCheck(swap, tc, t) ==
    LET st == swap.state IN
    CASE st = "SellerOfferCreated" -> R("SellerSendingOffer", "none", swap)
      [] st = "SellerSendingOffer" ->
            IF t >= SwapMsgDeadline(swap) THEN R("SellerCancelled", "none", swap)
            ELSE R(st, "SellerSendOfferMessage", swap)
      [] st = "SellerWaitingForAcceptanceMessage" ->
            IF t >= SwapMsgDeadline(swap) THEN R("SellerCancelled", "none", swap)
            ELSE R(st, "SellerWaitingForOfferMessage", swap)
      [] st = "SellerWaitingForBuyerLock" ->
            IF swap.lock_first \/ SecondaryLockSeen(tc)
            THEN R("SellerPostingLockMwcSlate", "none", swap)
            ELSE IF t >= SwapMsgDeadline(swap) THEN R("SellerCancelled", "none", swap)
            ELSE R(st, "WaitForConfirmations", swap)
      [] st = "SellerPostingLockMwcSlate" ->
            IF tc.mwc_lock_conf # None
            THEN R("SellerWaitingForLockConfirmations", "none", swap)
            ELSE IF t >= SwapMsgDeadline(swap) THEN R("SellerCancelled", "none", swap)
            ELSE R(st, "SellerPublishMwcLockTx", swap)
      [] st = "SellerWaitingForLockConfirmations" ->
            IF LocksConfirmed(tc) /\ t < SwapMsgDeadline(swap)
            THEN R("SellerWaitingForInitRedeemMessage", "none", swap)
            ELSE IF t >= SwapMsgDeadline(swap)
            THEN R("SellerWaitingForRefundHeight", "none", swap)
            ELSE R(st, "WaitForConfirmations", swap)
      [] st = "SellerWaitingForInitRedeemMessage" ->
            IF t >= SwapMsgDeadline(swap)
            THEN R("SellerWaitingForRefundHeight", "none", swap)
            ELSE IF ~LocksConfirmed(tc)
            THEN R("SellerWaitingForLockConfirmations", "none", swap)
            ELSE R(st, "SellerWaitingForInitRedeemMessage", swap)
      [] st = "SellerSendingInitRedeemMessage" ->
            IF t >= SwapMsgDeadline(swap)
            THEN R("SellerWaitingForRefundHeight", "none", swap)
            ELSE R(st, "SellerSendRedeemMessage", swap)
      [] st = "SellerWaitingForBuyerToRedeemMwc" ->
            IF tc.mwc_redeem_conf # None
            THEN R("SellerRedeemSecondaryCurrency", "none", [swap EXCEPT !.redeem_slate = 3])
            ELSE IF tc.mwc_tip >= SwapRefundHeight(swap)
            THEN R("SellerWaitingForRefundHeight", "none", swap)
            ELSE R(st, "WaitForConfirmations", swap)
      [] st = "SellerRedeemSecondaryCurrency" ->
            IF tc.secondary_redeem_conf # None
            THEN R("SellerWaitingForRedeemConfirmations", "none", swap)
            ELSE IF SellerRedeemDeadlinePassed(swap, t)
            THEN R("SellerWaitingForRefundHeight", "none", swap)
            ELSE R(st, "SellerPublishTxSecondaryRedeem", swap)
      [] st = "SellerWaitingForRedeemConfirmations" ->
            IF tc.secondary_redeem_conf # None /\ tc.secondary_redeem_conf >= NeedConf
            THEN R("SellerSwapComplete", "none", swap)
            ELSE R(st, "WaitForConfirmations", swap)
      [] st = "SellerWaitingForRefundHeight" ->
            IF tc.mwc_tip >= SwapRefundHeight(swap)
            THEN R("SellerPostingRefundSlate", "none", swap)
            ELSE R(st, "WaitForConfirmations", swap)
      [] st = "SellerPostingRefundSlate" ->
            IF tc.mwc_refund_conf # None
            THEN R("SellerWaitingForRefundConfirmations", "none", swap)
            ELSE R(st, "SellerPublishMwcRefundTx", swap)
      [] st = "SellerWaitingForRefundConfirmations" ->
            IF tc.mwc_refund_conf # None /\ tc.mwc_refund_conf >= NeedConf
            THEN R("SellerCancelledRefunded", "none", swap)
            ELSE R(st, "WaitForConfirmations", swap)
      [] OTHER -> R(st, "none", swap)

BuyerCheck(swap, tc, t) ==
    LET st == swap.state IN
    CASE st = "BuyerOfferCreated" -> R("BuyerSendingAcceptOfferMessage", "none", swap)
      [] st = "BuyerSendingAcceptOfferMessage" ->
            IF t >= SwapMsgDeadline(swap) THEN R("BuyerCancelled", "none", swap)
            ELSE R(st, "BuyerSendAcceptOfferMessage", swap)
      [] st = "BuyerWaitingForSellerToLock" ->
            IF ~swap.lock_first \/ tc.mwc_lock_conf # None
            THEN R("BuyerPostingSecondaryToMultisigAccount", "none", swap)
            ELSE IF t >= SwapMsgDeadline(swap) THEN R("BuyerCancelled", "none", swap)
            ELSE R(st, "WaitForConfirmations", swap)
      [] st = "BuyerPostingSecondaryToMultisigAccount" ->
            IF SecondaryLockSeen(tc)
            THEN R("BuyerWaitingForLockConfirmations", "none", swap)
            ELSE IF t >= SwapMsgDeadline(swap)
            THEN IF tc.secondary_lock_amount = 0
                 THEN R("BuyerCancelled", "none", swap)
                 ELSE R("BuyerWaitingForRefundTime", "none", swap)
            ELSE R(st, "DepositSecondary", swap)
      [] st = "BuyerWaitingForLockConfirmations" ->
            IF LocksConfirmed(tc) /\ t < SwapMsgDeadline(swap)
            THEN R("BuyerSendingInitRedeemMessage", "none", swap)
            ELSE IF t >= SwapMsgDeadline(swap)
            THEN R("BuyerWaitingForRefundTime", "none", swap)
            ELSE R(st, "WaitForConfirmations", swap)
      [] st = "BuyerSendingInitRedeemMessage" ->
            IF t >= SwapMsgDeadline(swap)
            THEN R("BuyerWaitingForRefundTime", "none", swap)
            ELSE IF ~LocksConfirmed(tc)
            THEN R("BuyerWaitingForLockConfirmations", "none", swap)
            ELSE R(st, "BuyerSendInitRedeemMessage", swap)
      [] st = "BuyerWaitingForRespondRedeemMessage" ->
            IF BuyerRedeemDeadlinePassed(swap, t)
            THEN R("BuyerWaitingForRefundTime", "none", swap)
            ELSE R(st, "BuyerWaitingForRedeemMessage", swap)
      [] st = "BuyerRedeemMwc" ->
            IF tc.mwc_redeem_conf # None
            THEN R("BuyerWaitForRedeemMwcConfirmations", "none", swap)
            ELSE IF BuyerRedeemDeadlinePassed(swap, t)
            THEN R("BuyerWaitingForRefundTime", "none", swap)
            ELSE R(st, "BuyerPublishMwcRedeemTx", swap)
      [] st = "BuyerWaitForRedeemMwcConfirmations" ->
            IF tc.mwc_redeem_conf # None /\ tc.mwc_redeem_conf >= NeedConf
            THEN R("BuyerSwapComplete", "none", swap)
            ELSE R(st, "WaitForConfirmations", swap)
      [] st = "BuyerWaitingForRefundTime" ->
            IF t >= SwapBtcLock(swap)
            THEN R("BuyerPostingRefundForSecondary", "none", swap)
            ELSE R(st, "WaitForConfirmations", swap)
      [] st = "BuyerPostingRefundForSecondary" ->
            IF tc.secondary_refund_conf # None
            THEN R("BuyerWaitingForRefundConfirmations", "none", swap)
            ELSE R(st, "BuyerPublishSecondaryRefundTx", swap)
      [] st = "BuyerWaitingForRefundConfirmations" ->
            IF tc.secondary_refund_conf # None /\ tc.secondary_refund_conf >= NeedConf
            THEN R("BuyerCancelledRefunded", "none", swap)
            ELSE R(st, "WaitForConfirmations", swap)
      [] OTHER -> R(st, "none", swap)

StateCheck(swap, tc, t) ==
    IF IsSeller(swap) THEN SellerCheck(swap, tc, t) ELSE BuyerCheck(swap, tc, t)

-----------------------------------------------------------------------------
(* Input::Cancel, Input::IncomeMessage and Input::Execute.  Handlers answer  *)
(* [ok, err, next, action, swap, post].                                      *)

H(next, swap, post) ==
    [ok |-> TRUE, err |-> "", next |-> next, action |-> "none", swap |-> swap, post |-> post]
HErr(kind, swap) ==
    [ok |-> FALSE, err |-> kind, next |-> swap.state, action |-> "none", swap |-> swap,
     post |-> "none"]

Index(seq, x) == CHOOSE i \in DOMAIN seq : seq[i] = x

\* State::is_cancellable of the current state
is_cancellable(swap) ==
    IF IsSeller(swap)
    THEN swap.state \in {SellerStates[i] : i \in 1..6}
    ELSE swap.state \in {BuyerStates[i] : i \in 1..6}

StateCancel(swap, tc) ==
    IF ~is_cancellable(swap) THEN HErr("UnexpectedAction", swap)
    ELSE IF IsSeller(swap)
    THEN IF swap.state = "SellerWaitingForLockConfirmations"
         THEN H("SellerWaitingForRefundHeight", swap, "none")
         ELSE H("SellerCancelled", swap, "none")
    ELSE IF Index(BuyerStates, swap.state) <= 3
            \/ (swap.state = "BuyerPostingSecondaryToMultisigAccount"
                /\ tc.secondary_lock_amount = 0)
         THEN H("BuyerCancelled", swap, "none")
         ELSE H("BuyerWaitingForRefundTime", swap, "none")

\* states in which the message kind has already been consumed
Consumed(swap, kind) ==
    CASE kind = "AcceptOffer" ->
            IsSeller(swap) /\ Index(SellerStates, swap.state) > 3
      [] kind = "InitRedeem" ->
            IsSeller(swap) /\ Index(SellerStates, swap.state) \in 8..12
      [] kind = "Redeem" ->
            ~IsSeller(swap) /\ Index(BuyerStates, swap.state) \in 8..10
      [] OTHER -> FALSE

StateIncomeMessage(swap, kind) ==
    CASE swap.state = "SellerWaitingForAcceptanceMessage" /\ kind = "AcceptOffer" ->
            H("SellerWaitingForBuyerLock",
              [swap EXCEPT !.lock_slate = 2, !.refund_slate = 2, !.redeem_public = TRUE],
              "none")
      [] swap.state = "SellerWaitingForInitRedeemMessage" /\ kind = "InitRedeem" ->
            H("SellerSendingInitRedeemMessage", [swap EXCEPT !.redeem_slate = 1], "none")
      [] swap.state = "BuyerWaitingForRespondRedeemMessage" /\ kind = "Redeem" ->
            H("BuyerRedeemMwc", [swap EXCEPT !.redeem_slate = 2], "none")
      [] OTHER ->
            IF Consumed(swap, kind) THEN H(swap.state, swap, "none")
            ELSE HErr("UnexpectedMessageType", swap)

\* publication of a primary slate by an Execute handler
PublishSlate(tx, next, swap, ch, tip, rpc_fails) ==
    IF rpc_fails \/ ~MwcAccepts(tx, swap, ch, tip) THEN HErr("NodeError", swap)
    ELSE H(next, swap, tx)

Lift(r, next) ==
    IF r.ok THEN H(next, r.swap, r.post) ELSE HErr(r.err, r.swap)

StateExecute(swap, ch, tip, t, has_address, rpc_fails) ==
    LET st == swap.state IN
    CASE st = "SellerSendingOffer" -> H("SellerWaitingForAcceptanceMessage", swap, "none")
      [] st = "SellerPostingLockMwcSlate" ->
            PublishSlate("mwc_lock", "SellerWaitingForLockConfirmations", swap, ch, tip,
                         rpc_fails)
      [] st = "SellerSendingInitRedeemMessage" ->
            H("SellerWaitingForBuyerToRedeemMwc", swap, "none")
      [] st = "SellerRedeemSecondaryCurrency" ->
            Lift(publish_secondary_transaction(swap, ch, t, FALSE, rpc_fails),
                 "SellerWaitingForRedeemConfirmations")
      [] st = "SellerPostingRefundSlate" ->
            PublishSlate("mwc_refund", "SellerWaitingForRefundConfirmations", swap, ch, tip,
                         rpc_fails)
      [] st = "BuyerSendingAcceptOfferMessage" -> H("BuyerWaitingForSellerToLock", swap, "none")
      [] st = "BuyerSendingInitRedeemMessage" ->
            H("BuyerWaitingForRespondRedeemMessage", swap, "none")
      [] st = "BuyerRedeemMwc" ->
            PublishSlate("mwc_redeem", "BuyerWaitForRedeemMwcConfirmations",
                         [swap EXCEPT !.redeem_slate = IF @ = 2 THEN 3 ELSE @], ch, tip,
                         rpc_fails)
      [] st = "BuyerPostingRefundForSecondary" ->
            Lift(post_secondary_refund_tx(swap, ch, t, has_address, rpc_fails),
                 "BuyerWaitingForRefundConfirmations")
      [] OTHER -> HErr("InvalidSwapStateInput", swap)

-----------------------------------------------------------------------------
(* StateMachine::process: the handler of the current state, then Check on    *)
(* every state entered until the state no longer changes.                    *)

RECURSIVE CheckLoop(_, _, _, _)
\* r is the respond of the Check handler of swap.state
CheckStep(r, swap, tc, t, fuel) ==
    IF r.next = swap.state \/ fuel = 0
    THEN [next_state_id |-> r.next, action |-> r.action, swap |-> r.swap]
    ELSE CheckLoop([r.swap EXCEPT !.state = r.next], tc, t, fuel - 1)

CheckLoop(swap, tc, t, fuel) == CheckStep(StateCheck(swap, tc, t), swap, tc, t, fuel)

Inputs == {"Check", "Execute", "Cancel", "IncomeMessage"}

CheckRespond(r) == [H(r.next, r.swap, "none") EXCEPT !.action = r.action]

\* the handler of the current state on the input
StateProcess(input, swap, tc, ch, tip, t, rpc_fails) ==
    CASE input.kind = "Check" -> CheckRespond(StateCheck(swap, tc, t))
      [] input.kind = "Execute" ->
            StateExecute(swap, ch, tip, t, input.has_address, rpc_fails)
      [] input.kind = "Cancel" -> StateCancel(swap, tc)
      [] OTHER -> StateIncomeMessage(swap, input.msg)

Respond(l, post) ==
    [ok |-> TRUE, err |-> "", swap |-> l.swap, next_state_id |-> l.next_state_id,
     action |-> l.action, post |-> post]

\* first is the respond of the handler of swap.state
StateSettle(first, swap, tc, t) ==
    IF ~first.ok
    THEN [ok |-> FALSE, err |-> first.err, swap |-> swap,
          next_state_id |-> swap.state, action |-> "none", post |-> "none"]
    ELSE IF first.next = swap.state
    THEN [ok |-> TRUE, err |-> "", swap |-> first.swap,
          next_state_id |-> first.next, action |-> first.action, post |-> first.post]
    ELSE Respond(CheckLoop([first.swap EXCEPT !.state = first.next], tc, t,
                           Len(SellerStates)),
                 first.post)

\* input: [kind, msg, has_address]; answers [ok, err, swap, next_state_id, action, post]
fsm_process(input, swap, tc, ch, tip, t, rpc_fails) ==
    StateSettle(StateProcess(input, swap, tc, ch, tip, t, rpc_fails), swap, tc, t)

CheckInput == [kind |-> "Check", msg |-> "", has_address |-> FALSE]
ExecuteInput(has_address) == [kind |-> "Execute", msg |-> "", has_address |-> has_address]
CancelInput == [kind |-> "Cancel", msg |-> "", has_address |-> FALSE]
MessageInput(kind) == [kind |-> "IncomeMessage", msg |-> kind, has_address |-> FALSE]

-----------------------------------------------------------------------------
(* Owner API calls, each run to its return.  `f` names the step of the call  *)
(* at which an external collaborator fails ("none": every step succeeds):    *)
(*   "conf"    an RPC of request_tx_confirmations                            *)
(*   "check"   fsm.process(Input::Check)                                     *)
(*   "store1"  the store after Check        "sender"  message_sender         *)
(*   "rpc"     an RPC inside the Execute    "store2"  the store after Execute*)
(*   "wallet2" the wallet bookkeeping of the action branch                   *)
(* An outcome is what the call returns and leaves behind:                    *)
(*   result  "Ok" or the error kind        stage   the step that returned    *)
(*   swap    the persisted record of (w, id) at return                       *)
(*   ch      the transactions of trade id at return                          *)
(*   log     the wallet's tx log entries for the trade's slates              *)
(*   sent    messages handed to message_sender                               *)
(*   state, action  the returned StateId and Action                          *)

MaxLog == 2
NoLog == [lock |-> 0, redeem |-> 0, refund |-> 0]
Bump(n) == IF n < MaxLog THEN n + 1 ELSE n

Out(result, stage, swap, ch, log, sent, state, action) ==
    [result |-> result, stage |-> stage, swap |-> swap, ch |-> ch, log |-> log,
     sent |-> sent, state |-> state, action |-> action]

Msg(id, kind, swap) ==
    [id |-> id, kind |-> kind, lock_first |-> swap.lock_first,
     started |-> swap.started, tip0 |-> swap.tip0]

SendActions ==
    {"SellerSendOfferMessage", "BuyerSendAcceptOfferMessage",
     "BuyerSendInitRedeemMessage", "SellerSendRedeemMessage"}
WaitMessageActions ==
    {"SellerWaitingForOfferMessage", "SellerWaitingForInitRedeemMessage",
     "BuyerWaitingForRedeemMessage"}

MessageOf(action) ==
    CASE action = "SellerSendOfferMessage" -> "Offer"
      [] action = "BuyerSendAcceptOfferMessage" -> "AcceptOffer"
      [] action = "BuyerSendInitRedeemMessage" -> "InitRedeem"
      [] OTHER -> "Redeem"

\* trades::get_swap_trade(..).is_ok()
Exists(rec) == rec # NoRec

\* swap_income_message dropping the error of fsm.process(Input::IncomeMessage)
swap_income_message_error_dropped(rec, msg, ch, log, tip, t, f) ==
    LET fail(kind, stage) == Out(kind, stage, rec, ch, log, {}, "", "none") IN
    IF msg.kind = "None" THEN fail("Generic", "message")
    ELSE IF msg.kind = "Offer"
    THEN IF Exists(rec) THEN fail("Generic", "exists")
         ELSE IF f = "rpc" THEN fail("NodeError", "create")
         ELSE IF f \in {"store1", "store2"} THEN fail("StoreError", "store")
         ELSE Out("Ok", "done", NewBuyerSwap(msg), ch, log, {}, "", "none")
    ELSE IF ~Exists(rec) THEN fail("TradeIoError", "get")
    ELSE IF f = "conf" THEN fail("NodeError", "conf")
    ELSE LET tc == request_tx_confirmations(rec, ch, tip)
             r == fsm_process(MessageInput(msg.kind), rec, tc, ch, tip, t, FALSE)
         IN IF f \in {"store1", "store2"} THEN fail("StoreError", "store")
            ELSE Out("Ok", "done", r.swap, ch, log, {}, "", "none")

\* swap_income_message storing a record for a message of a SwapID it does not know
swap_income_message_creating(rec, msg, ch, log, tip, t, f) ==
    LET fail(kind, stage) == Out(kind, stage, rec, ch, log, {}, "", "none") IN
    IF msg.kind = "None" THEN fail("Generic", "message")
    ELSE IF msg.kind = "Offer"
    THEN IF Exists(rec) THEN fail("Generic", "exists")
         ELSE IF f = "rpc" THEN fail("NodeError", "create")
         ELSE IF f \in {"store1", "store2"} THEN fail("StoreError", "store")
         ELSE Out("Ok", "done", NewBuyerSwap(msg), ch, log, {}, "", "none")
    ELSE IF ~Exists(rec) THEN Out("Ok", "done", NewBuyerSwap(msg), ch, log, {}, "", "none")
    ELSE IF f = "conf" THEN fail("NodeError", "conf")
    ELSE LET tc == request_tx_confirmations(rec, ch, tip)
             r == fsm_process(MessageInput(msg.kind), rec, tc, ch, tip, t, FALSE)
         IN IF ~r.ok THEN fail(r.err, "process")
            ELSE IF f \in {"store1", "store2"} THEN fail("StoreError", "store")
            ELSE Out("Ok", "done", r.swap, ch, log, {}, "", "none")

\* swap_income_message: msg is the parsed message ([kind |-> "None"] for Update::None)
swap_income_message(rec, msg, ch, log, tip, t, f) ==
    LET fail(kind, stage) == Out(kind, stage, rec, ch, log, {}, "", "none") IN
    IF msg.kind = "None" THEN fail("Generic", "message")
    ELSE IF msg.kind = "Offer"
    THEN IF Exists(rec) THEN fail("Generic", "exists")
         ELSE IF f = "rpc" THEN fail("NodeError", "create")
         ELSE IF f \in {"store1", "store2"} THEN fail("StoreError", "store")
         ELSE Out("Ok", "done", NewBuyerSwap(msg), ch, log, {}, "", "none")
    ELSE IF ~Exists(rec) THEN fail("TradeIoError", "get")
    ELSE IF f = "conf" THEN fail("NodeError", "conf")
    ELSE LET tc == request_tx_confirmations(rec, ch, tip)
             r == fsm_process(MessageInput(msg.kind), rec, tc, ch, tip, t, FALSE)
         IN IF ~r.ok THEN fail(r.err, "process")
            ELSE IF f \in {"store1", "store2"} THEN fail("StoreError", "store")
            ELSE Out("Ok", "done", r.swap, ch, log, {}, "", "none")

\* get_swap_status_action returning without the store of the record
get_swap_status_action_not_stored(rec, ch, log, tip, t, f) ==
    LET fail(kind, stage) == Out(kind, stage, rec, ch, log, {}, "", "none") IN
    IF ~Exists(rec) THEN fail("TradeIoError", "get")
    ELSE IF f = "conf" THEN fail("NodeError", "conf")
    ELSE IF f = "check" THEN fail("Generic", "check")
    ELSE LET tc == request_tx_confirmations(rec, ch, tip)
             r == fsm_process(CheckInput, rec, tc, ch, tip, t, FALSE)
         IN IF f \in {"store1", "store2"} THEN fail("StoreError", "store")
            ELSE Out("Ok", "done", rec, ch, log, {}, r.next_state_id, r.action)

\* get_swap_status_action running the Execute of the action it reports
get_swap_status_action_executing(rec, ch, log, tip, t, f) ==
    LET fail(kind, stage) == Out(kind, stage, rec, ch, log, {}, "", "none") IN
    IF ~Exists(rec) THEN fail("TradeIoError", "get")
    ELSE IF f = "conf" THEN fail("NodeError", "conf")
    ELSE IF f = "check" THEN fail("Generic", "check")
    ELSE LET tc == request_tx_confirmations(rec, ch, tip)
             r == fsm_process(CheckInput, rec, tc, ch, tip, t, FALSE)
             e == fsm_process(ExecuteInput(FALSE), r.swap, tc, ch, tip, t, FALSE)
         IN IF f \in {"store1", "store2"} THEN fail("StoreError", "store")
            ELSE IF ~e.ok THEN Out("Ok", "done", r.swap, ch, log, {}, r.next_state_id, r.action)
            ELSE Out("Ok", "done", e.swap, PostEffect(ch, e.post), log, {},
                     e.next_state_id, e.action)

\* get_swap_status_action
get_swap_status_action(rec, ch, log, tip, t, f) ==
    LET fail(kind, stage) == Out(kind, stage, rec, ch, log, {}, "", "none") IN
    IF ~Exists(rec) THEN fail("TradeIoError", "get")
    ELSE IF f = "conf" THEN fail("NodeError", "conf")
    ELSE IF f = "check" THEN fail("Generic", "check")
    ELSE LET tc == request_tx_confirmations(rec, ch, tip)
             r == fsm_process(CheckInput, rec, tc, ch, tip, t, FALSE)
         IN IF f \in {"store1", "store2"} THEN fail("StoreError", "store")
            ELSE Out("Ok", "done", r.swap, ch, log, {}, r.next_state_id, r.action)

\* swap_adjust without the has_state test of the target state
swap_adjust_any_state(rec, cmd, ch, log, tip, t, f) ==
    LET fail(kind, stage) == Out(kind, stage, rec, ch, log, {}, "", "none") IN
    IF ~Exists(rec) THEN fail("TradeIoError", "get")
    ELSE IF cmd = "cancel"
    THEN IF ~is_cancellable(rec) THEN fail("Generic", "cancellable")
         ELSE IF f = "conf" THEN fail("NodeError", "conf")
         ELSE LET tc == request_tx_confirmations(rec, ch, tip)
                  r == fsm_process(CancelInput, rec, tc, ch, tip, t, FALSE)
              IN IF ~r.ok THEN fail(r.err, "process")
                 ELSE IF f \in {"store1", "store2"} THEN fail("StoreError", "store")
                 ELSE Out("Ok", "done", r.swap, ch, log, {}, r.swap.state, r.action)
    ELSE IF cmd \notin Range(SellerStates) \cup Range(BuyerStates)
    THEN fail("Generic", "from_cmd_str")
    ELSE LET adjusted == [rec EXCEPT !.state = cmd] IN
         IF f = "conf" THEN fail("NodeError", "conf")
         ELSE IF f = "check" THEN fail("Generic", "check")
         ELSE LET tc == request_tx_confirmations(adjusted, ch, tip)
                  r == fsm_process(CheckInput, adjusted, tc, ch, tip, t, FALSE)
              IN IF f \in {"store1", "store2"} THEN fail("StoreError", "store")
                 ELSE Out("Ok", "done", r.swap, ch, log, {}, r.swap.state, r.action)

\* swap_adjust storing the adjusted record before the Check
swap_adjust_stored_first(rec, cmd, ch, log, tip, t, f) ==
    LET fail(kind, stage) == Out(kind, stage, rec, ch, log, {}, "", "none") IN
    IF ~Exists(rec) THEN fail("TradeIoError", "get")
    ELSE IF cmd = "cancel"
    THEN IF ~is_cancellable(rec) THEN fail("Generic", "cancellable")
         ELSE IF f = "conf" THEN fail("NodeError", "conf")
         ELSE LET tc == request_tx_confirmations(rec, ch, tip)
                  r == fsm_process(CancelInput, rec, tc, ch, tip, t, FALSE)
              IN IF ~r.ok THEN fail(r.err, "process")
                 ELSE IF f \in {"store1", "store2"} THEN fail("StoreError", "store")
                 ELSE Out("Ok", "done", r.swap, ch, log, {}, r.swap.state, r.action)
    ELSE IF cmd \notin Range(SellerStates) \cup Range(BuyerStates)
    THEN fail("Generic", "from_cmd_str")
    ELSE IF ~HasState(rec, cmd) THEN fail("Generic", "has_state")
    ELSE LET adjusted == [rec EXCEPT !.state = cmd]
             stored(kind, stage) == Out(kind, stage, adjusted, ch, log, {}, "", "none")
         IN
         IF f = "conf" THEN stored("NodeError", "conf")
         ELSE IF f = "check" THEN stored("Generic", "check")
         ELSE LET tc == request_tx_confirmations(adjusted, ch, tip)
                  r == fsm_process(CheckInput, adjusted, tc, ch, tip, t, FALSE)
              IN IF f \in {"store1", "store2"} THEN stored("StoreError", "store")
                 ELSE Out("Ok", "done", r.swap, ch, log, {}, r.swap.state, r.action)

\* swap_adjust: cmd is "cancel" or the name of a state
swap_adjust(rec, cmd, ch, log, tip, t, f) ==
    LET fail(kind, stage) == Out(kind, stage, rec, ch, log, {}, "", "none") IN
    IF ~Exists(rec) THEN fail("TradeIoError", "get")
    ELSE IF cmd = "cancel"
    THEN IF ~is_cancellable(rec) THEN fail("Generic", "cancellable")
         ELSE IF f = "conf" THEN fail("NodeError", "conf")
         ELSE LET tc == request_tx_confirmations(rec, ch, tip)
                  r == fsm_process(CancelInput, rec, tc, ch, tip, t, FALSE)
              IN IF ~r.ok THEN fail(r.err, "process")
                 ELSE IF f \in {"store1", "store2"} THEN fail("StoreError", "store")
                 ELSE Out("Ok", "done", r.swap, ch, log, {}, r.swap.state, r.action)
    ELSE IF cmd \notin Range(SellerStates) \cup Range(BuyerStates)
    THEN fail("Generic", "from_cmd_str")
    ELSE IF ~HasState(rec, cmd) THEN fail("Generic", "has_state")
    ELSE LET adjusted == [rec EXCEPT !.state = cmd] IN
         IF f = "conf" THEN fail("NodeError", "conf")
         ELSE IF f = "check" THEN fail("Generic", "check")
         ELSE LET tc == request_tx_confirmations(adjusted, ch, tip)
                  r == fsm_process(CheckInput, adjusted, tc, ch, tip, t, FALSE)
              IN IF f \in {"store1", "store2"} THEN fail("StoreError", "store")
                 ELSE Out("Ok", "done", r.swap, ch, log, {}, r.swap.state, r.action)

\* the failure the nested swap_income_message of swap_process meets
NestedFailure(f) ==
    CASE f = "rpc" -> "conf"
      [] f = "store2" -> "store2"
      [] OTHER -> "none"

\* swap_process creating the tx log entries without looking for an entry of the same
\* kernel excess
swap_process_branch_log_unchecked(c, p1, id, dest, ch, log, tip, t, f, exec) ==
    LET a == c.action
        back(kind, stage, swap, ch2, log2, sent) ==
            Out(kind, stage, swap, ch2, log2, sent, "", "none")
        ch2 == PostEffect(ch, exec.post)
        done(log2, sent) ==
            Out("Ok", "done", exec.swap, ch2, log2, sent, exec.next_state_id, exec.action)
    IN
    CASE a \in SendActions ->
            LET m == {Msg(id, MessageOf(a), p1)} IN
            IF f = "sender" THEN back("SenderError", "sender", p1, ch, log, {})
            ELSE IF ~exec.ok THEN back(exec.err, "execute", p1, ch, log, m)
            ELSE IF f = "store2" THEN back("StoreError", "store2", p1, ch2, log, m)
            ELSE done(log, m)
      [] a \in WaitMessageActions ->
            IF dest.kind = "none" THEN back("Generic", "destination", p1, ch, log, {})
            ELSE IF dest.kind # "file" THEN back("Generic", "file", p1, ch, log, {})
            ELSE IF dest.msg.id # id THEN back("Generic", "message_id", p1, ch, log, {})
            ELSE LET r == swap_income_message(p1, dest.msg, ch, log, tip, t,
                                              NestedFailure(f))
                 IN IF r.result # "Ok" THEN back(r.result, "income", p1, ch, log, {})
                    ELSE Out("Ok", "done", r.swap, ch, log, {}, c.next_state_id, c.action)
      [] a = "SellerPublishMwcLockTx" ->
            LET log1 == [log EXCEPT !.lock = Bump(@)] IN
            IF f = "wallet2" THEN back("WalletError", "wallet2", p1, ch, log, {})
            ELSE IF ~exec.ok THEN back(exec.err, "execute", p1, ch, log1, {})
            ELSE IF f = "store2" THEN back("StoreError", "store2", p1, ch2, log1, {})
            ELSE done(log1, {})
      [] a = "SellerPublishTxSecondaryRedeem" ->
            IF ~exec.ok THEN back(exec.err, "execute", p1, ch, log, {})
            ELSE IF f = "store2" THEN back("StoreError", "store2", p1, ch2, log, {})
            ELSE done(log, {})
      [] a = "BuyerPublishMwcRedeemTx" ->
            IF ~exec.ok THEN back(exec.err, "execute", p1, ch, log, {})
            ELSE IF f = "store2" THEN back("StoreError", "store2", p1, ch2, log, {})
            ELSE IF f = "wallet2" THEN back("WalletError", "wallet2", exec.swap, ch2, log, {})
            ELSE done([log EXCEPT !.redeem = Bump(@)], {})
      [] a = "SellerPublishMwcRefundTx" ->
            IF ~exec.ok THEN back(exec.err, "execute", p1, ch, log, {})
            ELSE IF f = "store2" THEN back("StoreError", "store2", p1, ch2, log, {})
            ELSE IF f = "wallet2" THEN back("WalletError", "wallet2", exec.swap, ch2, log, {})
            ELSE done(IF log.redeem = 0 THEN [log EXCEPT !.refund = Bump(@)] ELSE log, {})
      [] a = "BuyerPublishSecondaryRefundTx" ->
            IF dest.kind = "none" THEN back("Generic", "destination", p1, ch, log, {})
            ELSE IF ~exec.ok THEN back(exec.err, "execute", p1, ch, log, {})
            ELSE IF f = "store2" THEN back("StoreError", "store2", p1, ch2, log, {})
            ELSE done(log, {})
      [] OTHER -> Out("Ok", "done", p1, ch, log, {}, c.next_state_id, c.action)

\* swap_process, the branch taken on the action of the Check's respond.
\* c is the respond of the Check and p1 the record stored after it.
\* exec is the respond of fsm.process(Input::Execute) on p1.
swap_process_branch(c, p1, id, dest, ch, log, tip, t, f, exec) ==
    LET a == c.action
        back(kind, stage, swap, ch2, log2, sent) ==
            Out(kind, stage, swap, ch2, log2, sent, "", "none")
        ch2 == PostEffect(ch, exec.post)
        done(log2, sent) ==
            Out("Ok", "done", exec.swap, ch2, log2, sent, exec.next_state_id, exec.action)
    IN
    CASE a \in SendActions ->
            LET m == {Msg(id, MessageOf(a), p1)} IN
            IF f = "sender" THEN back("SenderError", "sender", p1, ch, log, {})
            ELSE IF ~exec.ok THEN back(exec.err, "execute", p1, ch, log, m)
            ELSE IF f = "store2" THEN back("StoreError", "store2", p1, ch2, log, m)
            ELSE done(log, m)
      [] a \in WaitMessageActions ->
            IF dest.kind = "none" THEN back("Generic", "destination", p1, ch, log, {})
            ELSE IF dest.kind # "file" THEN back("Generic", "file", p1, ch, log, {})
            ELSE IF dest.msg.id # id THEN back("Generic", "message_id", p1, ch, log, {})
            ELSE LET r == swap_income_message(p1, dest.msg, ch, log, tip, t,
                                              NestedFailure(f))
                 IN IF r.result # "Ok" THEN back(r.result, "income", p1, ch, log, {})
                    ELSE Out("Ok", "done", r.swap, ch, log, {}, c.next_state_id, c.action)
      [] a = "SellerPublishMwcLockTx" ->
            LET log1 == IF log.lock = 0 THEN [log EXCEPT !.lock = Bump(@)] ELSE log IN
            IF f = "wallet2" THEN back("WalletError", "wallet2", p1, ch, log, {})
            ELSE IF ~exec.ok THEN back(exec.err, "execute", p1, ch, log1, {})
            ELSE IF f = "store2" THEN back("StoreError", "store2", p1, ch2, log1, {})
            ELSE done(log1, {})
      [] a = "SellerPublishTxSecondaryRedeem" ->
            IF ~exec.ok THEN back(exec.err, "execute", p1, ch, log, {})
            ELSE IF f = "store2" THEN back("StoreError", "store2", p1, ch2, log, {})
            ELSE done(log, {})
      [] a = "BuyerPublishMwcRedeemTx" ->
            IF ~exec.ok THEN back(exec.err, "execute", p1, ch, log, {})
            ELSE IF f = "store2" THEN back("StoreError", "store2", p1, ch2, log, {})
            ELSE IF f = "wallet2" THEN back("WalletError", "wallet2", exec.swap, ch2, log, {})
            ELSE done(IF log.redeem = 0 THEN [log EXCEPT !.redeem = Bump(@)] ELSE log, {})
      [] a = "SellerPublishMwcRefundTx" ->
            IF ~exec.ok THEN back(exec.err, "execute", p1, ch, log, {})
            ELSE IF f = "store2" THEN back("StoreError", "store2", p1, ch2, log, {})
            ELSE IF f = "wallet2" THEN back("WalletError", "wallet2", exec.swap, ch2, log, {})
            ELSE done(IF log.redeem = 0 THEN [log EXCEPT !.refund = Bump(@)] ELSE log, {})
      [] a = "BuyerPublishSecondaryRefundTx" ->
            IF dest.kind = "none" THEN back("Generic", "destination", p1, ch, log, {})
            ELSE IF ~exec.ok THEN back(exec.err, "execute", p1, ch, log, {})
            ELSE IF f = "store2" THEN back("StoreError", "store2", p1, ch2, log, {})
            ELSE done(log, {})
      [] OTHER -> Out("Ok", "done", p1, ch, log, {}, c.next_state_id, c.action)

\* swap_process running the Execute and its store before the message is handed to
\* message_sender
swap_process_action_execute_first(c, p1, id, dest, ch, log, tip, t, tc, f) ==
    LET exec == fsm_process(ExecuteInput(dest.kind = "addr"), p1, tc, ch, tip, t, f = "rpc")
        o == swap_process_branch(c, p1, id, dest, ch, log, tip, t, f, exec)
    IN IF o.stage = "sender" /\ exec.ok THEN [o EXCEPT !.swap = exec.swap] ELSE o

\* swap_process creating the receive record of the redeem or refund slate before the
\* Execute that publishes the slate
swap_process_action_record_first(c, p1, id, dest, ch, log, tip, t, tc, f) ==
    LET o == swap_process_branch(c, p1, id, dest, ch, log, tip, t, f,
                 fsm_process(ExecuteInput(dest.kind = "addr"), p1, tc, ch, tip, t, f = "rpc"))
    IN IF o.stage = "execute" /\ c.action = "BuyerPublishMwcRedeemTx"
       THEN [o EXCEPT !.log.redeem = Bump(@)]
       ELSE IF o.stage = "execute" /\ c.action = "SellerPublishMwcRefundTx"
       THEN [o EXCEPT !.log.refund = Bump(@)]
       ELSE o

swap_process_action(c, p1, id, dest, ch, log, tip, t, tc, f) ==
    swap_process_branch(c, p1, id, dest, ch, log, tip, t, f,
        fsm_process(ExecuteInput(dest.kind = "addr"), p1, tc, ch, tip, t, f = "rpc"))

\* swap_process once the record is read and the confirmations tc are collected;
\* c is the respond of fsm.process(Input::Check)
swap_process_checked(c, rec, id, dest, ch, log, tip, t, tc, f) ==
    IF f = "store1" THEN Out("StoreError", "store1", rec, ch, log, {}, "", "none")
    ELSE IF c.action = "none"
    THEN Out("Ok", "done", c.swap, ch, log, {}, c.next_state_id, c.action)
    ELSE swap_process_action(c, c.swap, id, dest, ch, log, tip, t, tc, f)

\* swap_process running the Check with the clock of the start of the trade
swap_process_stale_clock(rec, id, dest, ch, log, tip, t, tc, f) ==
    swap_process_checked(fsm_process(CheckInput, rec, tc, ch, tip, rec.started, FALSE),
                         rec, id, dest, ch, log, tip, t, tc, f)

swap_process_confirmed(rec, id, dest, ch, log, tip, t, tc, f) ==
    swap_process_checked(fsm_process(CheckInput, rec, tc, ch, tip, t, FALSE),
                         rec, id, dest, ch, log, tip, t, tc, f)

\* swap_process
swap_process(rec, id, dest, ch, log, tip, t, f) ==
    LET fail(kind, stage) == Out(kind, stage, rec, ch, log, {}, "", "none") IN
    IF ~Exists(rec) THEN fail("TradeIoError", "get")
    ELSE IF f = "conf" THEN fail("NodeError", "conf")
    ELSE IF f = "check" THEN fail("Generic", "check")
    ELSE swap_process_confirmed(rec, id, dest, ch, log, tip, t,
                                request_tx_confirmations(rec, ch, tip), f)

\* swap_start: rec is the record the store holds under the minted SwapID
swap_start(rec, lock_first, ch, log, tip, t, f) ==
    LET fail(kind, stage) == Out(kind, stage, rec, ch, log, {}, "", "none") IN
    IF f = "rpc" THEN fail("NodeError", "tip")
    ELSE IF f = "wallet2" THEN fail("WalletError", "select_coins")
    ELSE IF Exists(rec) THEN fail("TradeIoError", "exists")
    ELSE IF f \in {"store1", "store2"} THEN fail("StoreError", "store")
    ELSE Out("Ok", "done", NewSellerSwap(lock_first, t, tip), ch, log, {}, "", "none")

-----------------------------------------------------------------------------
(* State *)

Threads == {1, 2}
NoLoc == [op |-> "none"]
NoTiming == [msg |-> 0]
NoCall == [op |-> "none", id |-> 0, result |-> "", stage |-> "", state |-> "",
           action |-> "none"]

\* the accounts of the wallet; parent_key_id() is the path of the active one
Accounts == {"default", "second", "third"}
parent_key_id(account) == <<"m", account>>

\* Keychain::derive_key: the key is a function of the depth, the identifier and the
\* switch commitment type
derive_key(depth, key_id, switch) == [depth |-> depth, id |-> key_id, switch |-> switch]

\* the key of the trade store as the owner API derives it
TradeKey(account) == derive_key(0, parent_key_id(account), "None")

NoKey == [depth |-> None]
NoKeys == [active |-> "default", sealed |-> [id \in Ids |-> NoKey]]
NoSecondary == [op |-> "none"]

Init ==
    /\ trades = [w \in Wallets |-> [id \in Ids |-> NoRec]]
    /\ txlog = [w \in Wallets |-> [id \in Ids |-> NoLog]]
    /\ chain = [id \in Ids |-> NoChain]
    /\ mwc_tip = 0
    /\ now = 0
    /\ net = {}
    /\ minted = {}
    /\ last = NoCall
    /\ budget = MaxAdjust
    /\ wlock = 0
    /\ pc = [t \in Threads |-> "idle"]
    /\ loc = [t \in Threads |-> NoLoc]
    /\ timing = NoTiming
    /\ keystore = NoKeys
    /\ secondary = NoSecondary
    /\ reorged = [id \in Ids |-> "no"]
    /\ persisted = {}

Failures == {"none", "conf", "check", "store1", "sender", "rpc", "store2", "wallet2"}

\* the failures a call of `op` on record rec with destination kind `dest` can meet.
\* A call on a missing record returns before any of them; a failure before the
\* respond of the Check is used does not depend on the destination.
FailuresOf(op, rec, dest) ==
    CASE op = "swap_start" -> {"none", "rpc", "wallet2", "store1"}
      [] op = "swap_income_message" ->
            IF dest = "Offer" THEN {"none", "rpc", "store1"}
            ELSE IF Exists(rec) THEN {"none", "conf", "store1"}
            ELSE {"none"}
      [] ~Exists(rec) -> {"none"}
      [] op \in {"get_swap_status_action", "swap_adjust"} ->
            {"none", "conf", "check", "store1"}
      [] dest = "none" -> Failures \ {"sender"}
      [] dest = "addr" -> {"none", "sender", "store2"}
      [] OTHER -> {"none", "rpc", "store2"}

\* no call is running and the result of the last call has been taken
Ready == last = NoCall /\ \A t \in Threads : pc[t] = "idle"

\* the smallest SwapID not minted yet (a fresh uuid), if any is left
Fresh == IF minted = Ids THEN {} ELSE {CHOOSE i \in Ids \ minted : \A j \in Ids \ minted : i <= j}

Live(w) == {id \in Ids : Exists(trades[w][id])}
MaxTrades == 1

\* a new SwapID may be minted: the model follows at most MaxTrades trades
MayMint == Cardinality(minted) < MaxTrades

\* the messages of trade id that are in flight
Sent(id, kind) == {m \in net : m.id = id /\ m.kind = kind}

\* the effect of a returned call on the stores, the chains and the network
Apply(op, w, id, outcome) ==
    \E o \in {outcome} :
        /\ trades' = [trades EXCEPT ![w][id] = o.swap]
        /\ txlog' = [txlog EXCEPT ![w][id] = o.log]
        /\ chain' = [chain EXCEPT ![id] = o.ch]
        /\ net' = net \cup o.sent
        /\ last' = [op |-> op, id |-> id, result |-> o.result, stage |-> o.stage,
                    state |-> o.state, action |-> o.action]

-----------------------------------------------------------------------------
(* Spec: the owner API of one wallet ("A").  The counterparty is part of the *)
(* environment: its messages arrive in any order and it posts its own        *)
(* transactions whenever the chains accept them.                             *)

SwapStart ==
    /\ Ready
    /\ \E id \in Fresh \cup Live("A"), lock_first \in BOOLEAN,
       f \in FailuresOf("swap_start", NoRec, "") :
        /\ id \in Live("A") \/ MayMint
        /\ Apply("swap_start", "A", id,
                 swap_start(trades["A"][id], lock_first, chain[id], txlog["A"][id],
                            mwc_tip, now, f))
        /\ minted' = IF last'.result = "Ok" THEN minted \cup {id} ELSE minted
        /\ UNCHANGED <<mwc_tip, now, budget, wlock, pc, loc, timing, keystore, secondary, reorged, persisted>>

Message(id, kind, lock_first) ==
    [id |-> id, kind |-> kind, lock_first |-> lock_first, started |-> 0, tip0 |-> 0]

\* the counterparty starts a trade and sends its Offer to wallet A
CounterpartyOffer ==
    /\ Ready
    /\ \E id \in Fresh, lock_first \in BOOLEAN :
        /\ MayMint
        /\ minted' = minted \cup {id}
        /\ net' = net \cup {[Message(id, "Offer", lock_first) EXCEPT !.started = now,
                                                                    !.tip0 = mwc_tip]}
        /\ UNCHANGED <<trades, txlog, chain, mwc_tip, now, last, budget, wlock, pc, loc, timing, keystore, secondary, reorged, persisted>>

\* the messages that may arrive at wallet A: the Offers in flight and any later
\* message of the counterparty
Incoming ==
    {m \in net : m.kind = "Offer"}
    \cup {Message(id, k, FALSE) : id \in Ids, k \in {"AcceptOffer", "InitRedeem", "Redeem"}}
    \cup {Message(1, "None", FALSE)}

SwapIncomeMessage ==
    /\ Ready
    /\ \E m \in Incoming :
       \E f \in FailuresOf("swap_income_message", trades["A"][m.id], m.kind) :
        /\ Apply("swap_income_message", "A", m.id,
                 swap_income_message(trades["A"][m.id], m, chain[m.id], txlog["A"][m.id],
                                     mwc_tip, now, f))
        /\ UNCHANGED <<mwc_tip, now, minted, budget, wlock, pc, loc, timing, keystore, secondary, reorged, persisted>>

GetSwapStatusAction ==
    /\ Ready
    /\ \E id \in Ids :
       \E f \in FailuresOf("get_swap_status_action", trades["A"][id], "") :
        /\ Apply("get_swap_status_action", "A", id,
                 get_swap_status_action(trades["A"][id], chain[id], txlog["A"][id],
                                        mwc_tip, now, f))
        /\ UNCHANGED <<mwc_tip, now, minted, budget, wlock, pc, loc, timing, keystore, secondary, reorged, persisted>>

Destinations(msgs) ==
    {[kind |-> "none"], [kind |-> "addr"]} \cup {[kind |-> "file", msg |-> m] : m \in msgs}

\* the message files a caller may hand to swap_process for trade id
Files(id) ==
    {Message(i, k, FALSE) : i \in Ids, k \in {"AcceptOffer", "InitRedeem", "Redeem"}}
    \cup {Message(id, "Offer", FALSE), Message(id, "None", FALSE)}

SwapProcess ==
    /\ Ready
    /\ \E id \in Ids :
       \E dest \in Destinations(IF Exists(trades["A"][id]) THEN Files(id) ELSE {}) :
       \E f \in FailuresOf("swap_process", trades["A"][id], dest.kind) :
        /\ Apply("swap_process", "A", id,
                 swap_process(trades["A"][id], id, dest, chain[id], txlog["A"][id],
                              mwc_tip, now, f))
        /\ UNCHANGED <<mwc_tip, now, minted, budget, wlock, pc, loc, timing, keystore, secondary, reorged, persisted>>

\* the commands given to swap_adjust: cancel, a name of no state, a state of each role
AdjustCommands == {"cancel", "bogus", "SellerRedeemSecondaryCurrency", "BuyerRedeemMwc"}

\* swap_adjust cancelling the trade, or failing
SwapAdjust ==
    /\ Ready
    /\ \E id \in Ids, cmd \in AdjustCommands :
       \E f \in FailuresOf("swap_adjust", trades["A"][id], "") :
        /\ Apply("swap_adjust", "A", id,
                 swap_adjust(trades["A"][id], cmd, chain[id], txlog["A"][id], mwc_tip, now, f))
        /\ cmd = "cancel" \/ last'.result # "Ok"
        /\ UNCHANGED <<mwc_tip, now, minted, budget, wlock, pc, loc, timing, keystore, secondary, reorged, persisted>>

\* swap_adjust moving the trade to a named state
SwapAdjusted ==
    /\ Ready
    /\ budget > 0
    /\ \E id \in Ids, cmd \in AdjustCommands \ {"cancel"} :
        /\ Apply("swap_adjust", "A", id,
                 swap_adjust(trades["A"][id], cmd, chain[id], txlog["A"][id], mwc_tip, now,
                             "none"))
        /\ last'.result = "Ok"
        /\ budget' = budget - 1
        /\ UNCHANGED <<mwc_tip, now, minted, wlock, pc, loc, timing, keystore, secondary, reorged, persisted>>

\* the caller takes the result of the call
Return ==
    /\ last # NoCall
    /\ last' = NoCall
    /\ UNCHANGED <<trades, txlog, chain, mwc_tip, now, net, minted, budget, wlock, pc, loc, timing, keystore, secondary, reorged, persisted>>

-----------------------------------------------------------------------------
(* The environment: clock, miners, reorganisations, the counterparty *)

\* the clock and the primary chain are followed from the creation of the first trade
Tick ==
    /\ Ready
    /\ minted # {}
    /\ now < MaxTime
    /\ now' = now + 1
    /\ UNCHANGED <<trades, txlog, chain, mwc_tip, net, minted, last, budget, wlock, pc, loc, timing, keystore, secondary, reorged, persisted>>

Confirm(c) == IF c >= 0 /\ c < MaxConf THEN c + 1 ELSE c

MineMwc ==
    /\ Ready
    /\ chain' = [id \in Ids |->
                    [chain[id] EXCEPT !.mwc_lock = Confirm(@), !.mwc_redeem = Confirm(@),
                                      !.mwc_refund = Confirm(@)]]
    /\ mwc_tip' = IF mwc_tip < MaxTip /\ minted # {} THEN mwc_tip + 1 ELSE mwc_tip
    /\ chain' # chain \/ mwc_tip' # mwc_tip
    /\ UNCHANGED <<trades, txlog, now, net, minted, last, budget, wlock, pc, loc, timing, keystore, secondary, reorged, persisted>>

MineBtc ==
    /\ Ready
    /\ chain' = [id \in Ids |->
                    [chain[id] EXCEPT !.btc_lock = Confirm(@), !.btc_redeem = Confirm(@),
                                      !.btc_refund = Confirm(@)]]
    /\ chain' # chain
    /\ UNCHANGED <<trades, txlog, mwc_tip, now, net, minted, last, budget, wlock, pc, loc, timing, keystore, secondary, reorged, persisted>>

ChainTxs == {"mwc_lock", "mwc_redeem", "mwc_refund", "btc_lock", "btc_redeem", "btc_refund"}

\* a payment of `amount` in total to the lock address of trade id
DepositOn(id, amount) ==
    /\ chain[id].btc_spent = "no"
    /\ chain[id].btc_amt < SecondaryAmount
    /\ amount > chain[id].btc_amt
    /\ chain' = [chain EXCEPT ![id].btc_amt = amount, ![id].btc_lock = 0]

\* the user of a Buyer trade pays once the trade asks for the deposit; a Seller's
\* counterparty pays once it holds the Seller's offer
Deposit ==
    /\ Ready
    /\ \E id \in Ids, amount \in 1..(SecondaryAmount + 1) :
        /\ Exists(trades["A"][id])
        /\ IF IsSeller(trades["A"][id])
           THEN Sent(id, "Offer") # {}
           ELSE trades["A"][id].state = "BuyerPostingSecondaryToMultisigAccount"
        /\ DepositOn(id, amount)
        /\ UNCHANGED <<trades, txlog, mwc_tip, now, net, minted, last, budget, wlock, pc, loc, timing, keystore, secondary, reorged, persisted>>

\* the counterparty of wallet A's trade posts one of its own transactions: the Seller
\* of a Buyer trade the primary lock and refund and the secondary redeem, the Buyer of
\* a Seller trade the primary redeem and the secondary refund
Counterparty ==
    \E id \in Ids, tx \in ChainTxs \ {"btc_lock"} :
        LET swap == trades["A"][id]
            ch == chain[id]
            full == [swap EXCEPT !.lock_slate = 2, !.refund_slate = 2, !.redeem_slate = 2]
        IN
        /\ Ready
        /\ Exists(swap)
        /\ IF IsSeller(swap)
           THEN \/ /\ tx = "mwc_redeem"
                   /\ Sent(id, "Redeem") # {}
                   /\ MwcAccepts(tx, full, ch, mwc_tip)
                \/ /\ tx = "btc_refund"
                   /\ BtcAccepts(tx, Unspent(ch), swap, ch, now)
           ELSE \/ /\ tx \in {"mwc_lock", "mwc_refund"}
                   /\ Sent(id, "AcceptOffer") # {}
                   /\ MwcAccepts(tx, full, ch, mwc_tip)
                \/ /\ tx = "btc_redeem"
                   /\ ch.mwc_redeem >= 0
                   /\ BtcAccepts(tx, Unspent(ch), swap, ch, now)
        /\ chain' = [chain EXCEPT ![id] = PostEffect(ch, tx)]
        /\ UNCHANGED <<trades, txlog, mwc_tip, now, net, minted, last, budget, wlock, pc, loc, timing, keystore, secondary, reorged, persisted>>

Next ==
    \/ SwapStart
    \/ CounterpartyOffer
    \/ SwapIncomeMessage
    \/ GetSwapStatusAction
    \/ SwapProcess
    \/ SwapAdjust
    \/ Return
    \/ Tick
    \/ MineMwc
    \/ MineBtc
    \/ Deposit
    \/ Counterparty

Spec == Init /\ [][Next]_vars

\* the same wallet with an operator who also adjusts the trade to a named state
NextAdjust == Next \/ SwapAdjusted
SpecAdjust == Init /\ [][NextAdjust]_vars

-----------------------------------------------------------------------------
(* SpecTime: the deadlines swap_start derives from the timing parameters of  *)
(* an offer.  swap_start hands SwapStartArgs to create_swap_offer as given.  *)

MaxStart == 1
MaxTip0 == 1
MaxMsgTime == 3
MaxRedeemTime == 3
MaxInterval == 3

OfferTiming ==
    /\ timing = NoTiming
    /\ \E started \in 0..MaxStart, tip \in 0..MaxTip0, msg \in 1..MaxMsgTime,
          redeem \in 1..MaxRedeemTime, interval \in 1..MaxInterval :
        timing' = [started |-> started, tip |-> tip, msg |-> msg, redeem |-> redeem,
                   interval |-> interval,
                   lock_time |-> TimeBtcLock(started, msg, redeem, SafetyMargin),
                   refund_height |-> MwcRefundHeight(tip, msg, redeem, interval),
                   refund_time |-> TimeMwcRefund(started, msg, redeem, interval)]
    /\ UNCHANGED <<trades, txlog, chain, mwc_tip, now, net, minted, last, budget, wlock, pc,
                   loc, keystore, secondary, reorged, persisted>>

SpecTime == Init /\ [][OfferTiming]_vars

\* C5: for every offer that swap_start accepts, the secondary lock time is strictly
\* greater than the wall time of the primary refund height plus the safety margin.
LockAfterRefund ==
    timing # NoTiming => timing.lock_time > timing.refund_time + SafetyMargin

-----------------------------------------------------------------------------
(* SpecConc: two threads of wallet "A" call the owner API on the same trade. *)
(* A call is followed from statement to statement: the wallet mutex taken by *)
(* wallet_lock!, the read of the record, the stores.                         *)

TheTrade == 1

Calls ==
    {[op |-> "swap_process", arg |-> "none"], [op |-> "swap_process", arg |-> "addr"],
     [op |-> "swap_adjust", arg |-> "cancel"], [op |-> "get_swap_status_action", arg |-> ""],
     [op |-> "swap_income_message", arg |-> "AcceptOffer"]}

\* the record of the trade when the threads start: a trade just created
StartRecords ==
    {NewSellerSwap(lf, 0, 0) : lf \in BOOLEAN}
    \cup {NewBuyerSwap(Message(TheTrade, "Offer", lf)) : lf \in BOOLEAN}

StartOf(rec) ==
    IF IsSeller(rec) THEN NewSellerSwap(rec.lock_first, 0, 0)
    ELSE NewBuyerSwap(Message(TheTrade, "Offer", rec.lock_first))

InitConc ==
    /\ \E rec \in StartRecords :
        trades = [w \in Wallets |-> [id \in Ids |->
                     IF w = "A" /\ id = TheTrade THEN rec ELSE NoRec]]
    /\ txlog = [w \in Wallets |-> [id \in Ids |-> NoLog]]
    /\ chain = [id \in Ids |-> NoChain]
    /\ mwc_tip = 0
    /\ now = 0
    /\ net = {}
    /\ minted = {TheTrade}
    /\ last = NoCall
    /\ budget = MaxAdjust
    /\ wlock = 0
    /\ pc = [t \in Threads |-> "idle"]
    /\ loc = [t \in Threads |-> NoLoc]
    /\ timing = NoTiming
    /\ keystore = NoKeys
    /\ secondary = NoSecondary
    /\ reorged = [id \in Ids |-> "no"]
    /\ persisted = {}

\* the calls whose body runs under wallet_lock! from its first statement
HoldsWalletLock(op) == op # "swap_process"

\* a call that runs alone on record rec, chain ch and tx log
WholeCall(c, rec, ch, log) ==
    CASE c.op = "swap_process" ->
            swap_process(rec, TheTrade, [kind |-> c.arg], ch, log, mwc_tip, now, "none")
      [] c.op = "swap_adjust" -> swap_adjust(rec, c.arg, ch, log, mwc_tip, now, "none")
      [] c.op = "get_swap_status_action" ->
            get_swap_status_action(rec, ch, log, mwc_tip, now, "none")
      [] OTHER ->
            swap_income_message(rec, Message(TheTrade, c.arg, rec.lock_first), ch, log,
                                mwc_tip, now, "none")

\* the thread enters its call; swap_process takes and releases the wallet mutex for its
\* first block, the other calls keep it
Begin(t) ==
    /\ pc[t] = "idle"
    /\ wlock = 0
    /\ \E c \in Calls :
        /\ loc' = [loc EXCEPT ![t] = [op |-> c.op, arg |-> c.arg, swap |-> NoRec,
                                      next_state_id |-> "", action |-> "none"]]
        /\ wlock' = IF HoldsWalletLock(c.op) THEN t ELSE 0
    /\ pc' = [pc EXCEPT ![t] = "get"]
    /\ UNCHANGED <<trades, txlog, chain, mwc_tip, now, net, minted, last, budget, timing, keystore, secondary, reorged, persisted>>

\* trades::get_swap_trade; without a record the call returns its error
Get(t) ==
    /\ pc[t] = "get"
    /\ loc' = [loc EXCEPT ![t].swap = trades["A"][TheTrade]]
    /\ pc' = [pc EXCEPT ![t] = IF ~Exists(trades["A"][TheTrade]) THEN "done"
                              ELSE IF loc[t].op = "swap_process" THEN "check" ELSE "body"]
    /\ wlock' = IF ~Exists(trades["A"][TheTrade]) /\ wlock = t THEN 0 ELSE wlock
    /\ UNCHANGED <<trades, txlog, chain, mwc_tip, now, net, minted, last, budget,
                   timing, keystore, secondary, reorged, persisted>>

\* the body of swap_adjust, get_swap_status_action or swap_income_message on the record
\* read, its store, and the release of the wallet mutex at the end of the scope
Body(t) ==
    /\ pc[t] = "body"
    /\ \E o \in {WholeCall(loc[t], loc[t].swap, chain[TheTrade], txlog["A"][TheTrade])} :
        /\ trades' = IF o.result = "Ok" THEN [trades EXCEPT !["A"][TheTrade] = o.swap]
                     ELSE trades
        /\ loc' = [loc EXCEPT ![t].swap = o.swap]
    /\ wlock' = 0
    /\ pc' = [pc EXCEPT ![t] = "done"]
    /\ UNCHANGED <<txlog, chain, mwc_tip, now, net, minted, last, budget, timing, keystore, secondary, reorged, persisted>>

\* swap_process: request_tx_confirmations, fsm.process(Input::Check) and the store
CheckAndStore(t) ==
    /\ pc[t] = "check"
    /\ \E c \in {fsm_process(CheckInput, loc[t].swap,
                             request_tx_confirmations(loc[t].swap, chain[TheTrade], mwc_tip),
                             chain[TheTrade], mwc_tip, now, FALSE)} :
        /\ trades' = [trades EXCEPT !["A"][TheTrade] = c.swap]
        /\ loc' = [loc EXCEPT ![t].swap = c.swap, ![t].next_state_id = c.next_state_id,
                              ![t].action = c.action]
        /\ pc' = [pc EXCEPT ![t] = IF c.action = "none" THEN "done" ELSE "action"]
    /\ UNCHANGED <<txlog, chain, mwc_tip, now, net, minted, last, budget, wlock, timing, keystore, secondary, reorged, persisted>>

\* the actions of swap_process that end with store_swap_trade
StoringActions ==
    SendActions \cup {"SellerPublishMwcLockTx", "SellerPublishTxSecondaryRedeem",
                      "BuyerPublishMwcRedeemTx", "SellerPublishMwcRefundTx",
                      "BuyerPublishSecondaryRefundTx"}

\* swap_process: the branch of the action, with its Execute and its store.  The branch
\* of SellerPublishMwcLockTx runs under wallet_lock!.
ActionAndStore(t) ==
    /\ pc[t] = "action"
    /\ loc[t].action = "SellerPublishMwcLockTx" => wlock = 0
    /\ \E o \in {swap_process_action(loc[t], loc[t].swap, TheTrade, [kind |-> loc[t].arg],
                                     chain[TheTrade], txlog["A"][TheTrade], mwc_tip, now,
                                     request_tx_confirmations(loc[t].swap, chain[TheTrade],
                                                              mwc_tip),
                                     "none")} :
        /\ trades' = IF o.result = "Ok" /\ loc[t].action \in StoringActions
                     THEN [trades EXCEPT !["A"][TheTrade] = o.swap]
                     ELSE trades
        /\ txlog' = [txlog EXCEPT !["A"][TheTrade] = o.log]
        /\ chain' = [chain EXCEPT ![TheTrade] = o.ch]
        /\ net' = net \cup o.sent
        /\ loc' = [loc EXCEPT ![t].swap = o.swap]
    /\ pc' = [pc EXCEPT ![t] = "done"]
    /\ UNCHANGED <<mwc_tip, now, minted, last, budget, wlock, timing, keystore, secondary, reorged, persisted>>

NextConc ==
    \E t \in Threads : Begin(t) \/ Get(t) \/ Body(t) \/ CheckAndStore(t) \/ ActionAndStore(t)

SpecConc == InitConc /\ [][NextConc]_vars

\* the record left by the call of thread a followed by the call of thread b
OneAfterTheOther(a, b) ==
    LET first == WholeCall(loc[a], StartOf(trades["A"][TheTrade]), NoChain, NoLog)
    IN WholeCall(loc[b], first.swap, first.ch, first.log).swap

\* the thread is between its read of the record and its last store
InSection(t) == pc[t] \in {"check", "action", "body"}

\* C2: concurrent owner API calls on one SwapID are serialized: the finally persisted
\* record equals the result of running the calls one after another in some order.
Serialized ==
    (pc[1] = "done" /\ pc[2] = "done")
        => trades["A"][TheTrade] \in {OneAfterTheOther(1, 2), OneAfterTheOther(2, 1)}

\* C3: mutual exclusion per trade: at no time are two threads both between reading and
\* storing the record of the same SwapID.
TradeLockExclusion == ~(InSection(1) /\ InSection(2))

-----------------------------------------------------------------------------
(* Properties of the owner API (Spec, SpecAdjust) *)

\* the step is the return of a call of op
Returns(op) == last = NoCall /\ last'.op = op

\* the state fsm.process(Input::Check) leaves in the record of trade id
CheckedState(id) ==
    LET rec == trades["A"][id] IN
    fsm_process(CheckInput, rec, request_tx_confirmations(rec, chain[id], mwc_tip),
                chain[id], mwc_tip, now, FALSE).swap.state

\* C1: atomicity: in no reachable state has the Seller both published the primary
\* (MWC) refund and redeemed the secondary (BTC) lock output.
Atomicity ==
    \A id \in Ids :
        IsSeller(trades["A"][id]) =>
            ~(chain[id].mwc_refund # None /\ chain[id].btc_redeem # None)

\* the Seller has refunded the primary coins, the secondary lock output is unspent and
\* a swap_process that tried to redeem it has been refused
AtomicityWitness ==
    /\ last.op = "swap_process" /\ last.stage = "execute" /\ last.result = "Generic"
    /\ IsSeller(trades["A"][last.id])
    /\ trades["A"][last.id].state = "SellerRedeemSecondaryCurrency"
    /\ chain[last.id].mwc_refund # None
    /\ Unspent(chain[last.id]) # << >>

\* C4: no redeem past the deadline: no swap_process publishes the Seller's redeem of the
\* secondary coins once now >= secondary_lock_time - redeem_time, nor the Buyer's redeem
\* of the primary coins once now >= primary_refund_time - redeem_time.
NoRedeemPastDeadline ==
    [][\A id \in Ids :
        Returns("swap_process") =>
            /\ (chain[id].btc_redeem = None /\ chain'[id].btc_redeem # None)
                    => ~SellerRedeemDeadlinePassed(trades["A"][id], now)
            /\ (chain[id].mwc_redeem = None /\ chain'[id].mwc_redeem # None)
                    => ~BuyerRedeemDeadlinePassed(trades["A"][id], now)]_vars

\* a swap_process has published the Seller's redeem in the last moment before the deadline
NoRedeemPastDeadlineWitness ==
    /\ last.op = "swap_process" /\ last.result = "Ok"
    /\ last.state = "SellerWaitingForRedeemConfirmations"
    /\ chain[last.id].btc_redeem = 0
    /\ now + 1 = SwapBtcLock(trades["A"][last.id]) - RedeemTime

\* C6: creating a second trade under a SwapID that already has a persisted record fails
\* with TradeIoError on both creation paths (swap_start and an incoming Offer message),
\* and the existing record is left unchanged.
DuplicateCreationFails ==
    [][(last = NoCall /\ last'.op \in {"swap_start", "swap_income_message"}
            /\ last'.stage = "exists")
        => (last'.result = "TradeIoError" /\ trades' = trades)]_vars

\* C7: Execute failures leave the state unchanged: whenever swap_process returns an error
\* at or after its Execute step, the persisted state of the trade is the one stored after
\* the preceding Check.
ExecuteFailureKeepsState ==
    [][(Returns("swap_process") /\ last'.result # "Ok"
            /\ last'.stage \in {"execute", "store2", "wallet2"})
        => trades'["A"][last'.id].state = CheckedState(last'.id)]_vars

\* C8: a failing Check does not advance the trade: when request_tx_confirmations or
\* fsm.process fails inside swap_process, get_swap_status_action, swap_adjust or
\* swap_income_message, the call returns the error and the persisted trade is unchanged.
CheckFailureKeepsState ==
    [][(last = NoCall /\ last'.op \in {"swap_process", "get_swap_status_action",
                                       "swap_adjust", "swap_income_message"}
            /\ last'.stage \in {"conf", "check", "process"})
        => (last'.result # "Ok" /\ trades' = trades)]_vars

\* swap_adjust to a named state has failed in its Check on a trade whose state the
\* Check would have changed
CheckFailureWitness ==
    /\ last.op = "swap_adjust" /\ last.stage = "check" /\ last.result = "Generic"
    /\ Exists(trades["A"][last.id])
    /\ CheckedState(last.id) # trades["A"][last.id].state

\* C9: when a Check fails, the error is captured in the persisted trade's
\* last_check_error before the call returns the error.
CheckFailureRecorded ==
    (last.op \in {"swap_process", "get_swap_status_action"}
        /\ last.stage \in {"conf", "check"})
    => trades["A"][last.id].last_check_error

\* C10: Check is idempotent: a second get_swap_status_action with no event in between
\* returns the same state and action, leaves the record (state and slates) as the first
\* left it, and no Check publishes anything on either chain.
CheckIdempotent ==
    \A id \in Ids :
        Exists(trades["A"][id]) =>
            LET once == get_swap_status_action(trades["A"][id], chain[id], txlog["A"][id],
                                               mwc_tip, now, "none")
                twice == get_swap_status_action(once.swap, once.ch, once.log,
                                                mwc_tip, now, "none")
            IN /\ once.ch = chain[id]
               /\ twice.ch = once.ch
               /\ twice.swap = once.swap
               /\ twice.state = once.state
               /\ twice.action = once.action

\* a get_swap_status_action has moved a Seller past its lock to the wait for the refund
CheckIdempotentWitness ==
    /\ last.op = "get_swap_status_action" /\ last.result = "Ok"
    /\ last.state = "SellerPostingRefundSlate"
    /\ last.action = "SellerPublishMwcRefundTx"
    /\ chain[last.id].mwc_lock = NeedConf

\* the respond of fsm.process(Input::Check) on record rec of trade id
CheckOf(rec, id) ==
    fsm_process(CheckInput, rec, request_tx_confirmations(rec, chain[id], mwc_tip),
                chain[id], mwc_tip, now, FALSE)

\* C11: a transport error does not advance the trade: when message_sender fails in
\* swap_process the call fails, nothing is sent or published, the persisted record is the
\* one stored after the Check (a Sending* state), and the next Check offers the same
\* message again.
TransportErrorKeepsState ==
    [][(Returns("swap_process") /\ last'.stage = "sender")
        => LET id == last'.id
               c == CheckOf(trades["A"][id], id)
           IN /\ last'.result # "Ok"
              /\ c.action \in SendActions
              /\ trades'["A"][id] = c.swap
              /\ net' = net /\ chain' = chain
              /\ CheckOf(trades'["A"][id], id).action = c.action]_vars

\* message_sender has failed on the Seller's offer and the trade still is in
\* SellerSendingOffer with no offer in flight
TransportErrorWitness ==
    /\ last.op = "swap_process" /\ last.stage = "sender" /\ last.result = "SenderError"
    /\ trades["A"][last.id].state = "SellerSendingOffer"
    /\ Sent(last.id, "Offer") = {}

\* C12 (refusal): for every state whose is_cancellable() is false, swap_adjust with
\* "cancel" fails and the persisted record is unchanged.
CancelRefused ==
    \A id \in Ids :
        LET rec == trades["A"][id] IN
        (Exists(rec) /\ ~is_cancellable(rec)) =>
            \A f \in Failures :
                LET o == swap_adjust(rec, "cancel", chain[id], txlog["A"][id], mwc_tip, now, f)
                IN o.result # "Ok" /\ o.swap = rec

\* thread t runs the call `op` and has entered it
Runs(t, op) == pc[t] # "idle" /\ loc[t].op = op

\* C12: a Cancel (swap_adjust with "cancel") never interrupts or overrides a process call
\* in flight on the same trade: when a Cancel and a swap_process have both returned, the
\* persisted record is the one left by running the two calls one after the other.
CancelKeepsProcess ==
    \A t, u \in Threads :
        (Runs(t, "swap_adjust") /\ Runs(u, "swap_process")
            /\ pc[t] = "done" /\ pc[u] = "done")
        => trades["A"][TheTrade] \in {OneAfterTheOther(t, u), OneAfterTheOther(u, t)}

\* the message the protocol expects next in the state of the trade ("" if none)
Awaited(swap) ==
    CASE swap.state = "SellerWaitingForAcceptanceMessage" -> "AcceptOffer"
      [] swap.state = "SellerWaitingForInitRedeemMessage" -> "InitRedeem"
      [] swap.state = "BuyerWaitingForRespondRedeemMessage" -> "Redeem"
      [] OTHER -> ""

\* the message arrives out of protocol order: it is neither awaited nor already consumed
OutOfOrder(swap, kind) == kind # Awaited(swap) /\ ~Consumed(swap, kind)

\* C13: a message that cannot be consumed is rejected without effect: swap_income_message
\* with Update::None, or with a non-Offer message out of protocol order for the state of
\* the trade, returns an error and leaves the persisted record unchanged.
UnconsumedMessageRejected ==
    \A m \in Incoming :
        LET rec == trades["A"][m.id] IN
        (m.kind = "None" \/ (m.kind # "Offer" /\ Exists(rec) /\ OutOfOrder(rec, m.kind)))
        => \A f \in Failures :
              LET o == swap_income_message(rec, m, chain[m.id], txlog["A"][m.id],
                                           mwc_tip, now, f)
              IN o.result # "Ok" /\ o.swap = rec /\ o.ch = chain[m.id]

\* a message out of order has been refused on a trade that waits for its lock to confirm
UnconsumedMessageWitness ==
    /\ last.op = "swap_income_message" /\ last.stage = "process"
    /\ last.result = "UnexpectedMessageType"
    /\ trades["A"][last.id].state = "SellerWaitingForLockConfirmations"

\* the message has been delivered to the trade before: the Offer that created a Buyer's
\* trade, or a message whose phase the trade has consumed
Delivered(swap, kind) ==
    IF kind = "Offer" THEN ~IsSeller(swap) ELSE Consumed(swap, kind)

\* C14: duplicate messages are idempotent: delivering again a message whose phase the
\* trade has already consumed, including the Offer that created the Buyer's trade, yields
\* Ok and leaves the persisted state unchanged.
DuplicateMessageIgnored ==
    \A m \in Incoming :
        LET rec == trades["A"][m.id] IN
        (m.kind # "None" /\ Exists(rec) /\ Delivered(rec, m.kind))
        => LET o == swap_income_message(rec, m, chain[m.id], txlog["A"][m.id],
                                        mwc_tip, now, "none")
           IN o.result = "Ok" /\ o.swap.state = rec.state

\* every input an owner API call can hand to fsm.process
ProcessInputs ==
    {CheckInput, ExecuteInput(TRUE), ExecuteInput(FALSE), CancelInput}
    \cup {MessageInput(k) : k \in {"AcceptOffer", "InitRedeem", "Redeem"}}

\* the records a successful fsm.process with one of the inputs leaves, from record rec
ProcessedWith(inputs, rec, id) ==
    LET tc == request_tx_confirmations(rec, chain[id], mwc_tip)
        rs == {fsm_process(i, rec, tc, chain[id], mwc_tip, now, FALSE) : i \in inputs}
    IN {r.swap : r \in {x \in rs : x.ok}}

\* the records one successful fsm.process leaves, from record rec of trade id
Processed(rec, id) == ProcessedWith(ProcessInputs, rec, id)

\* the states a call can leave by FSM transitions only: an owner API call applies at
\* most two inputs (Check, then Execute or an incoming message)
ProcessedStates(rec, id) ==
    LET once == Processed(rec, id)
    IN {s.state : s \in once} \cup UNION {{s.state : s \in Processed(r, id)} : r \in once}

\* C15: after creation a trade is mutated only via process(Input): the persisted state
\* changes only as the result of FSM transitions taken by process from its current state;
\* no owner API operation writes a state into the trade directly.
MutatedOnlyByProcess ==
    [][\A id \in Ids :
        (Exists(trades["A"][id]) /\ Exists(trades'["A"][id])
            /\ trades'["A"][id].state # trades["A"][id].state)
        => trades'["A"][id].state \in ProcessedStates(trades["A"][id], id)]_vars

\* C16: swap_adjust never persists a rejected transition: when the target is not a state
\* of the machine of the trade's role (has_state is false) or the Check run from the
\* adjusted state fails, swap_adjust returns an error and the persisted record is unchanged.
RejectedAdjustNotPersisted ==
    \A id \in Ids, cmd \in AdjustCommands \ {"cancel"} :
        LET rec == trades["A"][id] IN
        \A f \in FailuresOf("swap_adjust", rec, "") :
        (Exists(rec) /\ (~HasState(rec, cmd) \/ f \in {"conf", "check"}))
        => LET o == swap_adjust(rec, cmd, chain[id], txlog["A"][id], mwc_tip, now, f)
           IN o.result # "Ok" /\ o.swap = rec

\* swap_adjust has refused to move a Seller's trade to a state of the Buyer's machine
RejectedAdjustWitness ==
    /\ last.op = "swap_adjust" /\ last.stage = "has_state" /\ last.result = "Generic"
    /\ IsSeller(trades["A"][last.id])
    /\ trades["A"][last.id].state = "SellerWaitingForBuyerLock"

\* the inputs swap_process applies after its Check, by the action the Check returned
FollowingInputs(action) ==
    IF action \in StoringActions THEN {ExecuteInput(TRUE), ExecuteInput(FALSE)}
    ELSE IF action \in WaitMessageActions
    THEN {MessageInput(k) : k \in {"AcceptOffer", "InitRedeem", "Redeem"}}
    ELSE {}

\* C17: the record is rewritten after every FSM process that returned Ok: at the return
\* of swap_process, swap_income_message, swap_adjust and get_swap_status_action the
\* persisted record is the one left by the last successful fsm.process of the call, or,
\* when the call failed after it, by the one before: at most the effects of a single
\* process call are lost.
RecordFollowsProcess ==
    [][\A id \in Ids :
        (last = NoCall /\ last'.id = id /\ Exists(trades["A"][id]))
        => LET rec == trades["A"][id]
               after == trades'["A"][id]
               ok == last'.result = "Ok"
               c == CheckOf(rec, id)
               next == ProcessedWith(FollowingInputs(c.action), c.swap, id)
           IN /\ (last'.op = "get_swap_status_action" /\ ok) => after = c.swap
              /\ (last'.op = "swap_adjust" /\ ok)
                    => after \in ProcessedWith({CancelInput}, rec, id)
              /\ (last'.op = "swap_income_message" /\ ok)
                    => after \in ProcessedWith(FollowingInputs("SellerWaitingForOfferMessage"),
                                               rec, id)
              /\ (last'.op = "swap_process"
                    /\ last'.stage \notin {"get", "conf", "check", "store1"})
                    => /\ after \in {c.swap} \cup next
                       /\ (ok /\ FollowingInputs(c.action) # {}) => after \in next]_vars

\* a swap_process has published the primary lock and failed in the store that follows:
\* the record is the one stored after the Check
RecordFollowsProcessWitness ==
    /\ last.op = "swap_process" /\ last.stage = "store2" /\ last.result = "StoreError"
    /\ trades["A"][last.id].state = "SellerPostingLockMwcSlate"
    /\ chain[last.id].mwc_lock = 0

\* the next statement of thread t sends a request to a node: request_tx_confirmations
\* (chain tip, kernel and output lookups, unspent) or the post_tx of an Execute
AtRpc(t) ==
    \/ pc[t] \in {"check", "action"}
    \/ /\ pc[t] = "body"
       /\ Exists(loc[t].swap)
       /\ loc[t].op = "swap_adjust" => is_cancellable(loc[t].swap)

\* C18: the wallet-wide mutex is released before any network RPC: no owner swap API
\* call holds the wallet lock while a request to the primary or the secondary node is in
\* progress.
NoRpcUnderWalletLock == \A t \in Threads : AtRpc(t) => wlock # t

\* C19: every trade record persisted by swap_start satisfies
\* redeem_time_sec >= message_exchange_time_sec: swap_start rejects start arguments that
\* violate it and stores nothing.
RedeemTimeCoversExchange == timing # NoTiming => timing.redeem >= timing.msg

-----------------------------------------------------------------------------
(* SpecKey: the key of the trade store.  Every owner swap operation derives  *)
(* it as derive_key(0, parent_key_id(), SwitchCommitmentType::None); the     *)
(* user of the wallet may change its active account between two calls.       *)

\* trades::get_swap_trade: the record of id, if it opens with the key
get_swap_trade(id, skey) ==
    IF Exists(trades["A"][id]) /\ keystore.sealed[id] = skey THEN trades["A"][id] ELSE NoRec

\* the user makes another account of the wallet the active one
SetActiveAccount ==
    /\ Ready
    /\ \E a \in Accounts \ {keystore.active} : keystore' = [keystore EXCEPT !.active = a]
    /\ UNCHANGED <<trades, txlog, chain, mwc_tip, now, net, minted, last, budget, wlock, pc,
                   loc, timing, secondary, reorged, persisted>>

\* swap_start under the active account: the record is sealed with the key of that account
KeyedSwapStart ==
    /\ Ready
    /\ \E id \in Fresh, lock_first \in BOOLEAN :
        LET skey == TradeKey(keystore.active) IN
        /\ Apply("swap_start", "A", id,
                 swap_start(get_swap_trade(id, skey), lock_first, chain[id], txlog["A"][id],
                            mwc_tip, now, "none"))
        /\ minted' = minted \cup {id}
        /\ keystore' = [keystore EXCEPT !.sealed[id] = skey]
    /\ UNCHANGED <<mwc_tip, now, budget, wlock, pc, loc, timing, secondary, reorged, persisted>>

\* swap_get: reads the record with the key of the active account
SwapGet ==
    /\ Ready
    /\ \E id \in Ids :
        last' = [NoCall EXCEPT !.op = "swap_get", !.id = id, !.stage = "get",
                    !.result = IF Exists(get_swap_trade(id, TradeKey(keystore.active)))
                               THEN "Ok" ELSE "TradeIoError"]
    /\ UNCHANGED <<trades, txlog, chain, mwc_tip, now, net, minted, budget, wlock, pc, loc,
                   timing, keystore, secondary, reorged, persisted>>

NextKey == SetActiveAccount \/ KeyedSwapStart \/ SwapGet \/ Return

SpecKey == Init /\ [][NextKey]_vars

\* C20: the key of the trade store does not depend on the wallet's active account: a
\* record stored by one call is readable by every later call on the same wallet, whatever
\* account is active then.
StoredRecordReadable ==
    (last.op = "swap_get" /\ Exists(trades["A"][last.id])) => last.result = "Ok"

-----------------------------------------------------------------------------
(* The respond of swap_process *)

\* C25: swap_process returns the new state of the trade: whenever it returns Ok, the state
\* in the returned respond is the state persisted for the trade when the call returns, in
\* every branch, the one that consumed a message file through swap_income_message included.
RespondIsPersistedState ==
    [][(Returns("swap_process") /\ last'.result = "Ok")
        => last'.state = trades'["A"][last'.id].state]_vars

-----------------------------------------------------------------------------
(* The wallet's tx log *)

-----------------------------------------------------------------------------
(* Lock ordering *)

-----------------------------------------------------------------------------
(* SpecSecondary: the queries and transactions of the BTC adapter on the     *)
(* unspent outputs of a lock address, for every list the secondary node may  *)
(* answer with.                                                              *)

MaxOutputs == 2
MaxHeight == 2
TxidCount == 2
VoutCount == 2
MaxValue == 2

\* the outputs that may pay to the lock address; height 0 is the mempool
LockOutputs ==
    [txid : 1..TxidCount, vout : 0..(VoutCount - 1), value : 1..MaxValue,
     height : 0..MaxHeight]

\* BtcNodeClient::unspent: any list of outputs with different out points
UnspentLists ==
    UNION {{l \in [1..n -> LockOutputs] :
                \A i, j \in 1..n :
                    (l[i].txid = l[j].txid /\ l[i].vout = l[j].vout) => i = j}
           : n \in 0..MaxOutputs}

\* the tip heights of the secondary chain (a node may lag behind an output's block)
SecondaryTips == 0..(MaxHeight + 1)

Query(op, outputs, tip, needed, result) ==
    [op |-> op, outputs |-> outputs, tip |-> tip, needed |-> needed, result |-> result]

BtcBalance ==
    /\ secondary = NoSecondary
    /\ \E outputs \in UnspentLists, tip \in SecondaryTips, needed \in 0..(MaxHeight + 1) :
        secondary' = Query("btc_balance", outputs, tip, needed,
                           btc_balance(outputs, tip, needed))
    /\ UNCHANGED <<trades, txlog, chain, mwc_tip, now, net, minted, last, budget, wlock, pc,
                   loc, timing, keystore, reorged, persisted>>

\* the lock address part of request_tx_confirmations
RequestLockConfirmations ==
    /\ secondary = NoSecondary
    /\ \E outputs \in UnspentLists, tip \in SecondaryTips :
        secondary' = Query("request_tx_confirmations", outputs, tip, 0,
                           LockFold(outputs, 1, tip, [amount |-> 0, least |-> None]))
    /\ UNCHANGED <<trades, txlog, chain, mwc_tip, now, net, minted, last, budget, wlock, pc,
                   loc, timing, keystore, reorged, persisted>>

SellerBuildRedeemTx ==
    /\ secondary = NoSecondary
    /\ \E outputs \in UnspentLists, tip \in SecondaryTips :
        secondary' = Query("seller_build_redeem_tx", outputs, tip, 0,
                           seller_redeem_inputs(outputs, tip))
    /\ UNCHANGED <<trades, txlog, chain, mwc_tip, now, net, minted, last, budget, wlock, pc,
                   loc, timing, keystore, reorged, persisted>>

BuyerRefund ==
    /\ secondary = NoSecondary
    /\ \E outputs \in UnspentLists, tip \in SecondaryTips :
        secondary' = Query("buyer_refund", outputs, tip, 0, buyer_refund_inputs(outputs, tip))
    /\ UNCHANGED <<trades, txlog, chain, mwc_tip, now, net, minted, last, budget, wlock, pc,
                   loc, timing, keystore, reorged, persisted>>

NextSecondary == BtcBalance \/ RequestLockConfirmations \/ SellerBuildRedeemTx \/ BuyerRefund

SpecSecondary == Init /\ [][NextSecondary]_vars

RECURSIVE SumValues(_)
SumValues(outputs) ==
    IF outputs = << >> THEN 0
    ELSE outputs[1].value + SumValues(SubSeq(outputs, 2, Len(outputs)))

Built == secondary.op \in {"seller_build_redeem_tx", "buyer_refund"} /\ secondary.result.ok

\* C22: an over-funded lock is redeemed or refunded with its excess: the redeem
\* transaction (Seller) and the refund transaction (Buyer) spend every unspent output of
\* the lock address, the outputs in the mempool included: all that request_tx_confirmations
\* counts in secondary_lock_amount.
SpendsWholeLock ==
    Built =>
        /\ Range(secondary.result.inputs) = Range(secondary.outputs)
        /\ SumValues(secondary.result.inputs)
             = LockFold(secondary.outputs, 1, secondary.tip,
                        [amount |-> 0, least |-> None]).amount

\* the number of confirmations of an output under the tip
Confirmations(o, tip) ==
    IF o.height = 0 THEN 0 ELSE (IF tip > o.height THEN tip - o.height ELSE 0) + 1

Min(S) == CHOOSE x \in S : \A y \in S : x <= y

OutputIsPending(o, tip, needed) == o.height = 0 \/ Confirmations(o, tip) < needed

\* C23: btc_balance classifies every unspent output exactly once: an output in the mempool
\* (height 0) is pending with 0 confirmations; any other has max(tip - height, 0) + 1
\* confirmations and is confirmed iff these reach confirmations_needed; pending + confirmed
\* is the sum of all values; least_confirmations is the minimum over the pending outputs
\* (0 without any); the returned outputs are those with at least 1 confirmation.
BalanceClassifies ==
    secondary.op = "btc_balance" =>
        LET outs == secondary.outputs
            tip == secondary.tip
            needed == secondary.needed
            r == secondary.result
            pending == SelectSeq(outs, LAMBDA o : OutputIsPending(o, tip, needed))
            confirmed == SelectSeq(outs, LAMBDA o : ~OutputIsPending(o, tip, needed))
        IN /\ r.pending = SumValues(pending)
           /\ r.confirmed = SumValues(confirmed)
           /\ r.pending + r.confirmed = SumValues(outs)
           /\ r.least = IF pending = << >> THEN 0
                        ELSE Min({Confirmations(o, tip) : o \in Range(pending)})
           /\ r.outputs = SelectSeq(outs, LAMBDA o : Confirmations(o, tip) >= 1)

\* an over-funded lock with one payment in the mempool, one short of the needed depth and
\* a tip behind the block of an output
BalanceClassifiesWitness ==
    /\ secondary.op = "btc_balance"
    /\ Len(secondary.outputs) = MaxOutputs
    /\ secondary.result.pending > 0 /\ secondary.result.confirmed > 0
    /\ \E i \in DOMAIN secondary.outputs : secondary.outputs[i].height > secondary.tip

\* the lists the node may answer with for the same set of unspent outputs
Reordered(outputs) ==
    {l \in [DOMAIN outputs -> Range(outputs)] : Range(l) = Range(outputs)}

SortedByTxid(inputs) ==
    \A i, j \in DOMAIN inputs : i < j => inputs[i].txid <= inputs[j].txid

\* C24: deterministic input ordering: the outputs handed to the redeem transaction builder
\* (Seller) and to the refund transaction builder (Buyer) are in txid-sorted order, and
\* the inputs of the built transaction are the same for every order in which the
\* secondary node lists the unspent outputs.
DeterministicInputs ==
    Built =>
        /\ SortedByTxid(secondary.result.inputs)
        /\ \A l \in Reordered(secondary.outputs) :
              IF secondary.op = "buyer_refund"
              THEN buyer_refund_inputs(l, secondary.tip) = secondary.result
              ELSE seller_redeem_inputs(l, secondary.tip) = secondary.result

-----------------------------------------------------------------------------
(* SpecReorg: the wallet of Spec on chains that reorganise.  A               *)
(* reorganisation takes confirmations from the lock transactions of a trade  *)
(* that had reached the required depth; in SpecDrop the secondary node drops *)
(* the Seller's redeem transaction.                                          *)

\* the states entered once both locks had the required depth, whose Check looks at the
\* depth of the locks again
AfterLockConfirmations == {"SellerWaitingForInitRedeemMessage", "BuyerSendingInitRedeemMessage"}

WaitingForLockConfirmations ==
    {"SellerWaitingForLockConfirmations", "BuyerWaitingForLockConfirmations"}

\* the confirmations the adapter reports for trade id
ConfirmationsOf(id) == request_tx_confirmations(trades["A"][id], chain[id], mwc_tip)

\* a reorganisation of one of the chains takes the locks of a trade below the required
\* depth after the wallet has seen them confirmed; the lock transactions stay on chain
\* (the secondary lock may return to the mempool)
Reorg ==
    /\ Ready
    /\ \E id \in Ids, mwc \in 1..NeedConf, btc \in 0..NeedConf :
        /\ Exists(trades["A"][id])
        /\ trades["A"][id].state \in AfterLockConfirmations
        /\ reorged[id] = "no"
        /\ LocksConfirmed(ConfirmationsOf(id))
        /\ mwc < NeedConf \/ btc < NeedConf
        /\ chain' = [chain EXCEPT ![id].mwc_lock = mwc, ![id].btc_lock = btc]
        /\ reorged' = [reorged EXCEPT ![id] = "fell"]
    /\ UNCHANGED <<trades, txlog, mwc_tip, now, net, minted, last, budget, wlock, pc, loc,
                   timing, keystore, secondary, persisted>>

\* the chains grow again after the wallet has stored the trade as waiting for the
\* confirmations of the locks
Remine ==
    /\ Ready
    /\ \E id \in Ids :
        /\ Exists(trades["A"][id])
        /\ trades["A"][id].state \in WaitingForLockConfirmations
        /\ reorged[id] = "fell"
        /\ chain' = [chain EXCEPT ![id].mwc_lock = NeedConf, ![id].btc_lock = NeedConf]
        /\ reorged' = [reorged EXCEPT ![id] = "regressed"]
    /\ UNCHANGED <<trades, txlog, mwc_tip, now, net, minted, last, budget, wlock, pc, loc,
                   timing, keystore, secondary, persisted>>

\* the Seller's redeem transaction is dropped from the mempool of the secondary node: the
\* node no longer knows it and the lock output is unspent again
DropRedeem ==
    /\ Ready
    /\ \E id \in Ids :
        /\ Exists(trades["A"][id]) /\ IsSeller(trades["A"][id])
        /\ trades["A"][id].redeem_tx
        /\ chain[id].btc_redeem = 0
        /\ chain' = [chain EXCEPT ![id].btc_redeem = None, ![id].btc_spent = "no"]
    /\ UNCHANGED <<trades, txlog, mwc_tip, now, net, minted, last, budget, wlock, pc, loc,
                   timing, keystore, secondary, reorged, persisted>>

NextReorg == Next \/ Reorg \/ Remine

SpecReorg == Init /\ [][NextReorg]_vars

\* SpecDrop: the wallet of SpecAdjust on a secondary node that may drop the redeem
NextDrop == NextAdjust \/ DropRedeem

SpecDrop == Init /\ [][NextDrop]_vars

\* C21: the Seller's secondary redeem is one-shot: when redeem_tx is stored,
\* publish_secondary_transaction fails with OneShot for either value of retry, posts
\* nothing to the secondary node and leaves redeem_tx as it is.
RedeemIsOneShot ==
    \A id \in Ids :
        LET rec == trades["A"][id] IN
        (Exists(rec) /\ IsSeller(rec) /\ rec.redeem_tx) =>
            \A retry \in BOOLEAN, rpc_fails \in BOOLEAN :
                LET r == publish_secondary_transaction(rec, chain[id], now, retry, rpc_fails)
                IN ~r.ok /\ r.err = "OneShot" /\ r.post = "none" /\ r.swap = rec

\* a swap_process has tried to publish the redeem again after the first one was dropped
\* by the node, and has been refused
RedeemIsOneShotWitness ==
    /\ last.op = "swap_process" /\ last.stage = "execute" /\ last.result = "OneShot"
    /\ trades["A"][last.id].redeem_tx
    /\ chain[last.id].btc_redeem = None

RefundStates ==
    {"SellerWaitingForRefundHeight", "SellerPostingRefundSlate",
     "SellerWaitingForRefundConfirmations", "BuyerWaitingForRefundTime",
     "BuyerPostingRefundForSecondary", "BuyerWaitingForRefundConfirmations"}

\* both lock transactions are known to their chains, and at least one of them is below the
\* required depth
LocksBelowDepth(tc) ==
    /\ tc.mwc_lock_conf # None /\ tc.secondary_lock_conf # None
    /\ tc.secondary_lock_amount >= SecondaryAmount
    /\ tc.mwc_lock_conf < NeedConf \/ tc.secondary_lock_conf < NeedConf

-----------------------------------------------------------------------------
(* SpecRead: a thread of wallet "A" reads the trade with swap_list,          *)
(* swap_get, swap_dump and get_swap_tx_tstatus while another thread calls    *)
(* the operations that store it.  persisted collects every state that was    *)
(* stored for the trade.                                                     *)

Writer == 1
Reader == 2

InitRead ==
    /\ \E rec \in StartRecords :
        /\ trades = [w \in Wallets |-> [id \in Ids |->
                        IF w = "A" /\ id = TheTrade THEN rec ELSE NoRec]]
        /\ persisted = {rec.state}
    /\ txlog = [w \in Wallets |-> [id \in Ids |-> NoLog]]
    /\ chain = [id \in Ids |-> NoChain]
    /\ mwc_tip = 0
    /\ now = 0
    /\ net = {}
    /\ minted = {TheTrade}
    /\ last = NoCall
    /\ budget = MaxAdjust
    /\ wlock = 0
    /\ pc = [t \in Threads |-> "idle"]
    /\ loc = [t \in Threads |-> NoLoc]
    /\ timing = NoTiming
    /\ keystore = NoKeys
    /\ secondary = NoSecondary
    /\ reorged = [id \in Ids |-> "no"]

\* swap_list reporting the state a Check would move each trade to
swap_list_refreshed(ids, recs, chains, tip, t) ==
    {<<id, fsm_process(CheckInput, recs[id],
                       request_tx_confirmations(recs[id], chains[id], tip),
                       chains[id], tip, t, FALSE).next_state_id>> : id \in ids}

\* swap_list, the loop over the listed SwapIDs: (SwapID, state) of each record as read
swap_list(ids, recs, chains, tip, t) == {<<id, recs[id].state>> : id \in ids}

\* get_swap_tx_tstatus: the confirmations of the transactions of the record as read
get_swap_tx_tstatus(rec, ch, tip) == request_tx_confirmations(rec, ch, tip)

ReadCalls == {"swap_get", "swap_dump", "get_swap_tx_tstatus"}

\* swap_list: trades::list_swap_trades, before the wallet mutex is taken
ListSwapTrades ==
    /\ pc[Reader] = "idle"
    /\ loc' = [loc EXCEPT ![Reader] = [op |-> "swap_list", ids |-> Live("A"), locks |-> 0,
                                       report |-> {}, conf |-> None]]
    /\ pc' = [pc EXCEPT ![Reader] = "listed"]
    /\ UNCHANGED <<trades, txlog, chain, mwc_tip, now, net, minted, last, budget, wlock,
                   timing, keystore, secondary, reorged, persisted>>

\* swap_list: wallet_lock!
ListLock ==
    /\ pc[Reader] = "listed"
    /\ wlock = 0
    /\ wlock' = Reader
    /\ loc' = [loc EXCEPT ![Reader].locks = @ + 1]
    /\ pc' = [pc EXCEPT ![Reader] = "locked"]
    /\ UNCHANGED <<trades, txlog, chain, mwc_tip, now, net, minted, last, budget, timing,
                   keystore, secondary, reorged, persisted>>

\* swap_list: get_swap_trade of every listed SwapID, and the release of the wallet mutex
\* at the end of the scope
ListTrades ==
    /\ pc[Reader] = "locked"
    /\ loc' = [loc EXCEPT ![Reader].report =
                   swap_list(loc[Reader].ids, trades["A"], chain, mwc_tip, now)]
    /\ wlock' = 0
    /\ pc' = [pc EXCEPT ![Reader] = "done"]
    /\ UNCHANGED <<trades, txlog, chain, mwc_tip, now, net, minted, last, budget, timing,
                   keystore, secondary, reorged, persisted>>

\* swap_get, swap_dump and get_swap_tx_tstatus: wallet_lock!, get_swap_trade (or
\* dump_swap_trade) and the answer, in one scope
ReadTrade ==
    /\ pc[Reader] = "idle"
    /\ wlock = 0
    /\ \E op \in ReadCalls, id \in Ids :
        /\ Exists(trades["A"][id])
        /\ loc' = [loc EXCEPT ![Reader] =
                      [op |-> op, ids |-> {id}, locks |-> 1,
                       report |-> IF op = "get_swap_tx_tstatus" THEN {}
                                  ELSE {<<id, trades["A"][id].state>>},
                       conf |-> IF op = "get_swap_tx_tstatus"
                                THEN get_swap_tx_tstatus(trades["A"][id], chain[id], mwc_tip)
                                ELSE None]]
    /\ pc' = [pc EXCEPT ![Reader] = "done"]
    /\ UNCHANGED <<trades, txlog, chain, mwc_tip, now, net, minted, last, budget, wlock,
                   timing, keystore, secondary, reorged, persisted>>

\* the caller takes the answer of the read
ReadReturn ==
    /\ pc[Reader] = "done"
    /\ loc' = [loc EXCEPT ![Reader] = NoLoc]
    /\ pc' = [pc EXCEPT ![Reader] = "idle"]
    /\ UNCHANGED <<trades, txlog, chain, mwc_tip, now, net, minted, last, budget, wlock,
                   timing, keystore, secondary, reorged, persisted>>

\* swap_adjust, get_swap_status_action or swap_income_message, whole under wallet_lock!
WriteCall ==
    /\ pc[Writer] = "idle"
    /\ wlock = 0
    /\ \E c \in {c \in Calls : HoldsWalletLock(c.op)} :
       \E o \in {WholeCall(c, trades["A"][TheTrade], chain[TheTrade], txlog["A"][TheTrade])} :
        /\ o.result = "Ok"
        /\ trades' = [trades EXCEPT !["A"][TheTrade] = o.swap]
        /\ persisted' = persisted \cup {o.swap.state}
    /\ UNCHANGED <<txlog, chain, mwc_tip, now, net, minted, last, budget, wlock, pc, loc,
                   timing, keystore, secondary, reorged>>

\* swap_process up to its first store: the block under wallet_lock!, get_swap_trade,
\* request_tx_confirmations, fsm.process(Input::Check) and store_swap_trade
ProcessCheck ==
    /\ pc[Writer] = "idle"
    /\ wlock = 0
    /\ \E arg \in {"none", "addr"} :
       \E c \in {fsm_process(CheckInput, trades["A"][TheTrade],
                             request_tx_confirmations(trades["A"][TheTrade], chain[TheTrade],
                                                      mwc_tip),
                             chain[TheTrade], mwc_tip, now, FALSE)} :
        /\ trades' = [trades EXCEPT !["A"][TheTrade] = c.swap]
        /\ persisted' = persisted \cup {c.swap.state}
        /\ loc' = [loc EXCEPT ![Writer] = [op |-> "swap_process", arg |-> arg, swap |-> c.swap,
                                           next_state_id |-> c.next_state_id,
                                           action |-> c.action]]
        /\ pc' = [pc EXCEPT ![Writer] = IF c.action = "none" THEN "idle" ELSE "action"]
    /\ UNCHANGED <<txlog, chain, mwc_tip, now, net, minted, last, budget, wlock, timing,
                   keystore, secondary, reorged>>

\* swap_process: the branch of the action with its Execute and its store; the branch of
\* SellerPublishMwcLockTx takes the wallet mutex before it stores
ProcessAction ==
    /\ pc[Writer] = "action"
    /\ loc[Writer].action = "SellerPublishMwcLockTx" => wlock = 0
    /\ \E o \in {swap_process_action(loc[Writer], loc[Writer].swap, TheTrade,
                                     [kind |-> loc[Writer].arg], chain[TheTrade],
                                     txlog["A"][TheTrade], mwc_tip, now,
                                     request_tx_confirmations(loc[Writer].swap,
                                                              chain[TheTrade], mwc_tip),
                                     "none")} :
       \E stored \in {o.result = "Ok" /\ loc[Writer].action \in StoringActions} :
        /\ trades' = IF stored THEN [trades EXCEPT !["A"][TheTrade] = o.swap] ELSE trades
        /\ persisted' = IF stored THEN persisted \cup {o.swap.state} ELSE persisted
        /\ txlog' = [txlog EXCEPT !["A"][TheTrade] = o.log]
        /\ chain' = [chain EXCEPT ![TheTrade] = o.ch]
        /\ net' = net \cup o.sent
    /\ loc' = [loc EXCEPT ![Writer] = NoLoc]
    /\ pc' = [pc EXCEPT ![Writer] = "idle"]
    /\ UNCHANGED <<mwc_tip, now, minted, last, budget, wlock, timing, keystore, secondary,
                   reorged>>

NextRead ==
    \/ ListSwapTrades
    \/ ListLock
    \/ ListTrades
    \/ ReadTrade
    \/ ReadReturn
    \/ WriteCall
    \/ ProcessCheck
    \/ ProcessAction

SpecRead == InitRead /\ [][NextRead]_vars

\* C29: a step of swap_list, swap_get, swap_dump or get_swap_tx_tstatus leaves every
\* trade record (and the tx log and the chains) as it is; a finished swap_list has
\* taken the wallet lock once and reports, for every SwapID it listed, a state that was
\* stored for the trade at some time.
ReadsStoreNothing ==
    [][pc'[Reader] # pc[Reader] =>
        /\ trades' = trades /\ txlog' = txlog /\ chain' = chain
        /\ (pc'[Reader] = "done" /\ loc'[Reader].op = "swap_list") =>
            /\ loc'[Reader].locks = 1
            /\ {r[1] : r \in loc'[Reader].report} = loc'[Reader].ids
            /\ \A r \in loc'[Reader].report : r[2] \in persisted']_vars

\* swap_list has answered with the state the trade had when it was read, and the trade
\* has been stored in a later state since
ReadsStoreNothingWitness ==
    /\ pc[Reader] = "done"
    /\ loc[Reader].op = "swap_list"
    /\ \E r \in loc[Reader].report :
        /\ r[2] # trades["A"][r[1]].state
        /\ Cardinality(persisted) >= 3

-----------------------------------------------------------------------------
(* SpecLive: the Seller's wallet "A" and the Buyer's wallet "B" run one      *)
(* trade together.  Both parties are cooperative: every message sent is      *)
(* delivered with swap_income_message, every action is executed with         *)
(* swap_process, the Buyer's user pays the deposit, and the chains confirm   *)
(* what is posted.  The clock and the height of the primary chain stay       *)
(* where they were when the trade started, so that no deadline passes.       *)

\* the message kinds each wallet receives
Inbox(w) == IF w = "A" THEN {"AcceptOffer", "InitRedeem"} ELSE {"Offer", "Redeem"}

\* the thread of each party
ThreadOf(w) == IF w = "A" THEN 1 ELSE 2

\* no call of swap_process is running
Idle == \A t \in Threads : pc[t] = "idle"

\* the effect of a call of wallet w on its store, its tx log, the chains and the network
Effect(w, outcome) ==
    \E o \in {outcome} :
        /\ trades' = [trades EXCEPT ![w][TheTrade] = o.swap]
        /\ txlog' = [txlog EXCEPT ![w][TheTrade] = o.log]
        /\ chain' = [chain EXCEPT ![TheTrade] = o.ch]
        /\ net' = net \cup o.sent

\* the Seller starts the trade
LiveStart ==
    /\ Idle
    /\ ~Exists(trades["A"][TheTrade])
    /\ \E lock_first \in BOOLEAN :
        Effect("A", swap_start(trades["A"][TheTrade], lock_first, chain[TheTrade],
                               txlog["A"][TheTrade], mwc_tip, now, "none"))
    /\ minted' = {TheTrade}
    /\ UNCHANGED <<mwc_tip, now, last, budget, wlock, pc, loc, timing, keystore, secondary,
                   reorged, persisted>>

\* a message in flight reaches the wallet it is for
Deliver(w) ==
    /\ Idle
    /\ \E m \in net :
        /\ m.id = TheTrade /\ m.kind \in Inbox(w)
        /\ Effect(w, swap_income_message(trades[w][TheTrade], m, chain[TheTrade],
                                         txlog[w][TheTrade], mwc_tip, now, "none"))
    /\ UNCHANGED <<mwc_tip, now, minted, last, budget, wlock, pc, loc, timing, keystore,
                   secondary, reorged, persisted>>

\* the party calls swap_process on its trade, with the address of the other party
Call(w) ==
    /\ Idle
    /\ Exists(trades[w][TheTrade])
    /\ trades[w][TheTrade].state \notin TerminalStates
    /\ pc' = [pc EXCEPT ![ThreadOf(w)] = "swap_process"]
    /\ UNCHANGED <<trades, txlog, chain, mwc_tip, now, net, minted, last, budget, wlock, loc,
                   timing, keystore, secondary, reorged, persisted>>

\* swap_process runs and returns
Process(w) ==
    /\ pc[ThreadOf(w)] = "swap_process"
    /\ Effect(w, swap_process(trades[w][TheTrade], TheTrade, [kind |-> "addr"],
                              chain[TheTrade], txlog[w][TheTrade], mwc_tip, now, "none"))
    /\ pc' = [pc EXCEPT ![ThreadOf(w)] = "idle"]
    /\ UNCHANGED <<mwc_tip, now, minted, last, budget, wlock, loc, timing, keystore,
                   secondary, reorged, persisted>>

\* the Buyer's user pays the deposit the trade asks for
PayDeposit ==
    /\ Idle
    /\ Exists(trades["B"][TheTrade])
    /\ trades["B"][TheTrade].state = "BuyerPostingSecondaryToMultisigAccount"
    /\ \E amount \in 1..SecondaryAmount : DepositOn(TheTrade, amount)
    /\ UNCHANGED <<trades, txlog, mwc_tip, now, net, minted, last, budget, wlock, pc, loc,
                   timing, keystore, secondary, reorged, persisted>>

\* a block of the primary chain confirms the slates posted
ConfirmMwc ==
    /\ Idle
    /\ chain' = [chain EXCEPT ![TheTrade].mwc_lock = Confirm(@),
                              ![TheTrade].mwc_redeem = Confirm(@),
                              ![TheTrade].mwc_refund = Confirm(@)]
    /\ chain' # chain
    /\ UNCHANGED <<trades, txlog, mwc_tip, now, net, minted, last, budget, wlock, pc, loc,
                   timing, keystore, secondary, reorged, persisted>>

\* a block of the secondary chain confirms the transactions posted
ConfirmBtc ==
    /\ Idle
    /\ chain' = [chain EXCEPT ![TheTrade].btc_lock = Confirm(@),
                              ![TheTrade].btc_redeem = Confirm(@),
                              ![TheTrade].btc_refund = Confirm(@)]
    /\ chain' # chain
    /\ UNCHANGED <<trades, txlog, mwc_tip, now, net, minted, last, budget, wlock, pc, loc,
                   timing, keystore, secondary, reorged, persisted>>

NextLive ==
    \/ LiveStart
    \/ \E w \in Wallets : Deliver(w)
    \/ \E w \in Wallets : Call(w)
    \/ \E w \in Wallets : Process(w)
    \/ PayDeposit
    \/ ConfirmMwc
    \/ ConfirmBtc

\* cooperative parties and live chains: a step that is possible again and again is taken,
\* and a call of swap_process returns
Cooperative ==
    /\ SF_vars(LiveStart)
    /\ \A w \in Wallets : SF_vars(Deliver(w)) /\ SF_vars(Call(w))
    /\ \A t \in Threads : []<>(pc[t] = "idle")
    /\ SF_vars(PayDeposit)
    /\ SF_vars(ConfirmMwc)
    /\ SF_vars(ConfirmBtc)

SpecLive == Init /\ [][NextLive]_vars /\ Cooperative

BothComplete ==
    /\ Exists(trades["A"][TheTrade]) /\ trades["A"][TheTrade].state = "SellerSwapComplete"
    /\ Exists(trades["B"][TheTrade]) /\ trades["B"][TheTrade].state = "BuyerSwapComplete"

\* C28: progress on the happy path: with both parties cooperative and no deadline
\* passing, the Seller's and the Buyer's trades both reach SwapComplete, whether the
\* Seller locks first or not.
HappyPathCompletes == <>BothComplete

\* both trades are complete in a trade in which the Buyer locked first
HappyPathWitness == BothComplete /\ ~trades["A"][TheTrade].lock_first

-----------------------------------------------------------------------------
(* The transactions of the BTC adapter: what is built, what is recorded      *)

\* the outputs of the list that have at least one confirmation
Spendable(outputs) == SelectSeq(outputs, LAMBDA o : o.height # 0)

\* C39: the Seller's redeem and the Buyer's refund build a transaction only over a
\* non-empty set of spendable outputs: when the lock address has no output with at least
\* 1 confirmation (none at all, or only outputs in the mempool), seller_build_redeem_tx
\* and buyer_refund return the 'Not found outputs' error and hand nothing to a builder.
BuildsOverSpendable ==
    (/\ secondary.op \in {"seller_build_redeem_tx", "buyer_refund"}
     /\ Spendable(secondary.outputs) = << >>) =>
        ~secondary.result.ok /\ secondary.result.err = "Generic"

\* C34: a secondary transaction id is recorded only after the node accepted the
\* transaction: publish_secondary_transaction (Seller) and buyer_refund (Buyer) set
\* redeem_tx / refund_tx only when post_tx returned Ok for that transaction, and leave
\* the record as it is when building or posting fails.
RecordedAfterPost ==
    \A id \in Ids :
        LET rec == trades["A"][id] IN
        Exists(rec) =>
            \A retry \in BOOLEAN, rpc_fails \in BOOLEAN :
                LET r == IF IsSeller(rec)
                         THEN publish_secondary_transaction(rec, chain[id], now, retry,
                                                            rpc_fails)
                         ELSE buyer_refund(rec, chain[id], now, rpc_fails)
                    tx == IF IsSeller(rec) THEN "btc_redeem" ELSE "btc_refund"
                IN /\ ~r.ok => r.swap = rec /\ r.post = "none"
                   /\ r.ok => r.post = tx /\ BtcAccepts(tx, Unspent(chain[id]), rec,
                                                        chain[id], now)
                   /\ (r.swap.redeem_tx # rec.redeem_tx \/ r.swap.refund_tx # rec.refund_tx)
                        => r.ok

\* a swap_process has posted the Buyer's refund and stored its txid
RecordedAfterPostWitness ==
    /\ last.op = "swap_process" /\ last.result = "Ok"
    /\ Exists(trades["A"][last.id])
    /\ trades["A"][last.id].refund_tx
    /\ chain[last.id].btc_refund = 0

-----------------------------------------------------------------------------
(* SpecRefund: the wallet of Spec when the primary node may drop the         *)
(* Seller's refund slate from its mempool and the operator sends the trade   *)
(* back to the posting of the refund with swap_adjust.                       *)

\* the refund slate is dropped from the mempool of the primary node
DropRefund ==
    /\ Ready
    /\ \E id \in Ids :
        /\ Exists(trades["A"][id]) /\ IsSeller(trades["A"][id])
        /\ trades["A"][id].state = "SellerWaitingForRefundConfirmations"
        /\ chain[id].mwc_refund = 0
        /\ chain' = [chain EXCEPT ![id].mwc_refund = None]
    /\ UNCHANGED <<trades, txlog, mwc_tip, now, net, minted, last, budget, wlock, pc, loc,
                   timing, keystore, secondary, reorged, persisted>>

\* swap_adjust sending a Seller's trade that waits for the refund back to its posting
AdjustRefund ==
    /\ Ready
    /\ budget > 0
    /\ \E id \in Ids :
        /\ Exists(trades["A"][id])
        /\ trades["A"][id].state = "SellerWaitingForRefundConfirmations"
        /\ Apply("swap_adjust", "A", id,
                 swap_adjust(trades["A"][id], "SellerPostingRefundSlate", chain[id],
                             txlog["A"][id], mwc_tip, now, "none"))
        /\ budget' = budget - 1
        /\ UNCHANGED <<mwc_tip, now, minted, wlock, pc, loc, timing, keystore, secondary,
                       reorged, persisted>>

NextRefund == Next \/ DropRefund \/ AdjustRefund

SpecRefund == Init /\ [][NextRefund]_vars

\* C31: however many times the action SellerPublishMwcRefundTx is executed for a trade,
\* the Seller's tx log holds at most one entry (and one output record) with the kernel
\* excess of the refund slate.
RefundLoggedOnce == \A id \in Ids : txlog["A"][id].refund <= 1

-----------------------------------------------------------------------------
(* Routing of messages by SwapID *)

\* the records of wallet A other than the one of SwapID id
OtherRecords(tr, id) == [i \in Ids \ {id} |-> tr["A"][i]]

\* the record get_swap_status_action would store for the trade: the record after a Check
AfterCheck(id) ==
    get_swap_status_action(trades["A"][id], chain[id], txlog["A"][id], mwc_tip, now,
                           "none").swap

-----------------------------------------------------------------------------
(* Wallet bookkeeping and publication *)

\* C33: ordering of wallet bookkeeping and publication in swap_process: when the Execute
\* that publishes the Seller's lock slate has run (the slate is posted, or the Execute
\* failed), the tx log holds the entry that locks the inputs of the slate; and a receive
\* record for the redeem slate (Buyer) or the refund slate (Seller) is created only in a
\* call whose Execute returned Ok, posted the slate and stored the advanced trade.
BookkeepingOrdered ==
    [][\A id \in Ids :
        LET rec == trades["A"][id]
            rec2 == trades'["A"][id]
        IN /\ (/\ Exists(rec) /\ IsSeller(rec)
               /\ \/ /\ last'.op = "swap_process" /\ last'.id = id /\ last # last'
                     /\ rec2.state = "SellerPostingLockMwcSlate"
                     /\ last'.stage = "execute"
                  \/ chain[id].mwc_lock = None /\ chain'[id].mwc_lock # None) =>
                    txlog'["A"][id].lock >= 1
           /\ txlog'["A"][id].redeem > txlog["A"][id].redeem =>
                /\ last'.op = "swap_process" /\ last'.id = id
                /\ last'.result \in {"Ok", "WalletError"}
                /\ chain[id].mwc_redeem = None /\ chain'[id].mwc_redeem = 0
                /\ rec2.state = "BuyerWaitForRedeemMwcConfirmations"
           /\ txlog'["A"][id].refund > txlog["A"][id].refund =>
                /\ last'.op = "swap_process" /\ last'.id = id
                /\ last'.result \in {"Ok", "WalletError"}
                /\ chain[id].mwc_refund = None /\ chain'[id].mwc_refund = 0
                /\ rec2.state = "SellerWaitingForRefundConfirmations"]_vars

\* the Buyer's wallet holds the receive record of the redeem slate it has published
BookkeepingOrderedWitness ==
    \E id \in Ids :
        /\ txlog["A"][id].redeem = 1
        /\ chain[id].mwc_redeem = 0
        /\ trades["A"][id].state = "BuyerWaitForRedeemMwcConfirmations"

-----------------------------------------------------------------------------
(* Terminal states *)

\* C37: terminal states are absorbing: once the persisted state of a trade is
\* SwapComplete, Cancelled or CancelledRefunded, no call of the owner API changes the
\* persisted state (the wallets here never call swap_delete).
TerminalAbsorbing ==
    [][\A w \in Wallets, id \in Ids :
        (Exists(trades[w][id]) /\ trades[w][id].state \in TerminalStates) =>
            /\ Exists(trades'[w][id])
            /\ trades'[w][id].state = trades[w][id].state]_vars

-----------------------------------------------------------------------------
(* SpecCreate: the creation of records in a trade store whose records are    *)
(* sealed with the key of the account that was active when they were stored. *)

\* the effect of a creating call: the record it stored, if any, is sealed with skey
Created(op, id, skey, outcome) ==
    \E o \in {outcome} :
        /\ last' = [op |-> op, id |-> id, result |-> o.result, stage |-> o.stage,
                    state |-> o.state, action |-> o.action]
        /\ IF o.result = "Ok"
           THEN /\ trades' = [trades EXCEPT !["A"][id] = o.swap]
                /\ keystore' = [keystore EXCEPT !.sealed[id] = skey]
           ELSE UNCHANGED <<trades, keystore>>
        /\ minted' = minted \cup {id}

\* swap_start under the active account, the SwapID being a new one or one of the store
KeyedSwapRestart ==
    /\ Ready
    /\ \E id \in Ids, lock_first \in BOOLEAN, f \in {"none", "store1"} :
        LET skey == TradeKey(keystore.active) IN
        Created("swap_start", id, skey,
                swap_start(get_swap_trade(id, skey), lock_first, chain[id], txlog["A"][id],
                           mwc_tip, now, f))
    /\ UNCHANGED <<txlog, chain, mwc_tip, now, net, budget, wlock, pc, loc, timing,
                   secondary, reorged, persisted>>

\* swap_income_message with an Offer under the active account
KeyedOffer ==
    /\ Ready
    /\ \E id \in Ids, lock_first \in BOOLEAN, f \in {"none", "store1"} :
        LET skey == TradeKey(keystore.active) IN
        Created("swap_income_message", id, skey,
                swap_income_message(get_swap_trade(id, skey),
                                    Message(id, "Offer", lock_first), chain[id],
                                    txlog["A"][id], mwc_tip, now, f))
    /\ UNCHANGED <<txlog, chain, mwc_tip, now, net, budget, wlock, pc, loc, timing,
                   secondary, reorged, persisted>>

NextCreate == SetActiveAccount \/ KeyedSwapRestart \/ KeyedOffer \/ SwapGet \/ Return

SpecCreate == Init /\ [][NextCreate]_vars

\* C38: creation never overwrites an existing record file: swap_start and the Offer
\* branch of swap_income_message leave the file of a SwapID that has one as it is, also
\* when the record does not open with the key of the active account.
CreationKeepsRecords ==
    [][\A id \in Ids :
        (Exists(trades["A"][id]) /\ last'.op \in {"swap_start", "swap_income_message"}) =>
            /\ trades'["A"][id] = trades["A"][id]
            /\ keystore'.sealed[id] = keystore.sealed[id]]_vars

-----------------------------------------------------------------------------
(* SpecDelete: swap_delete while two threads of the wallet call the owner    *)
(* API on the trade.  swap_delete does not use its wallet argument: it takes *)
(* no mutex and removes the record file.                                     *)

\* swap_delete: trades::delete_swap_trade, which returns Ok when it removed the file
SwapDelete ==
    /\ last = NoCall
    /\ Exists(trades["A"][TheTrade])
    /\ trades' = [trades EXCEPT !["A"][TheTrade] = NoRec]
    /\ last' = [NoCall EXCEPT !.op = "swap_delete", !.id = TheTrade, !.result = "Ok",
                              !.stage = "done"]
    /\ UNCHANGED <<txlog, chain, mwc_tip, now, net, minted, budget, wlock, pc, loc, timing,
                   keystore, secondary, reorged, persisted>>

NextDelete == NextConc \/ SwapDelete

SpecDelete == InitConc /\ [][NextDelete]_vars

\* C36: deletion is final: after swap_delete returned Ok the trade has no record, as long
\* as no swap_start and no Offer creates one; a swap_process, swap_income_message,
\* swap_adjust or get_swap_status_action running at the same time does not store the
\* record again.
DeletionFinal ==
    last.op = "swap_delete" => ~Exists(trades["A"][TheTrade])

-----------------------------------------------------------------------------
(* SpecLock: the mutexes of the owner API.  A call is followed from one      *)
(* mutex statement to the next: wallet_lock! takes the wallet mutex and its  *)
(* guard lives to the end of the enclosing block; a statement                *)
(* self.btc_node_client.lock().f(..) takes the mutex of the secondary node   *)
(* client and its guard lives to the end of the statement.  Neither mutex is *)
(* reentrant.  An error return (`?`) drops every guard of the call.          *)

Take(m) == <<"lock", m>>
Drop(m) == <<"drop", m>>

\* wallet_lock!(wallet_inst, w) at the head of a block and the end of the block
wallet_lock(body) == <<Take("wallet")>> \o body \o <<Drop("wallet")>>

\* one statement self.btc_node_client.lock().f(..)
NodeCall == <<Take("node"), Drop("node")>>

\* btc_balance: unspent, height
btc_balance_locks == NodeCall \o NodeCall

\* request_tx_confirmations: height, get_btc_confirmation_number of the redeem and of the
\* refund transaction, unspent
request_tx_confirmations_locks == NodeCall \o NodeCall \o NodeCall \o NodeCall

\* publish_secondary_transaction: seller_build_redeem_tx (btc_balance), post_tx
publish_secondary_transaction_locks == btc_balance_locks \o NodeCall

\* post_secondary_refund_tx: buyer_refund (btc_balance, post_tx)
buyer_refund_locks == btc_balance_locks \o NodeCall

\* swap_income_message: each branch runs under wallet_lock!
swap_income_message_locks(kind) ==
    IF kind = "Offer" THEN wallet_lock(<<>>)
    ELSE wallet_lock(request_tx_confirmations_locks)

\* swap_process keeping the guard of its first block over the whole call
swap_process_locks_held(action) ==
    wallet_lock(request_tx_confirmations_locks
                \o (IF action \in WaitMessageActions
                    THEN swap_income_message_locks("Message") ELSE <<>>))

\* swap_process: the block that reads the keychain, request_tx_confirmations, and the
\* branch of the action
swap_process_locks(action) ==
    wallet_lock(<<>>) \o request_tx_confirmations_locks
    \o CASE action \in WaitMessageActions -> swap_income_message_locks("Message")
         [] action \in {"SellerPublishMwcLockTx", "BuyerPublishMwcRedeemTx",
                        "SellerPublishMwcRefundTx"} -> wallet_lock(<<>>)
         [] action = "SellerPublishTxSecondaryRedeem" -> publish_secondary_transaction_locks
         [] action = "BuyerPublishSecondaryRefundTx" -> buyer_refund_locks
         [] OTHER -> <<>>

LockCalls ==
    {[op |-> o, arg |-> ""] : o \in {"swap_start", "swap_list", "swap_delete", "swap_get",
                                     "swap_adjust", "swap_dump", "get_swap_status_action",
                                     "get_swap_tx_tstatus"}}
    \cup {[op |-> "swap_income_message", arg |-> k] : k \in {"Offer", "Message"}}
    \cup {[op |-> "swap_process", arg |-> a] :
            a \in {"none", "SellerWaitingForOfferMessage", "SellerPublishMwcLockTx",
                   "SellerPublishTxSecondaryRedeem", "BuyerPublishSecondaryRefundTx"}}

\* the mutex statements of a call, in the order the call runs them
Statements(c) ==
    CASE c.op = "swap_delete" -> <<>>
      [] c.op \in {"swap_start", "swap_list", "swap_get", "swap_dump"} -> wallet_lock(<<>>)
      [] c.op \in {"swap_adjust", "get_swap_status_action", "get_swap_tx_tstatus"} ->
            wallet_lock(request_tx_confirmations_locks)
      [] c.op = "swap_income_message" -> swap_income_message_locks(c.arg)
      [] OTHER -> swap_process_locks(c.arg)

NoGuards == [op |-> "none", todo |-> <<>>, guards |-> {}]

InitLock ==
    /\ trades = [w \in Wallets |-> [id \in Ids |-> NoRec]]
    /\ txlog = [w \in Wallets |-> [id \in Ids |-> NoLog]]
    /\ chain = [id \in Ids |-> NoChain]
    /\ mwc_tip = 0
    /\ now = 0
    /\ net = {}
    /\ minted = {}
    /\ last = NoCall
    /\ budget = MaxAdjust
    /\ wlock = 0
    /\ pc = [t \in Threads |-> "idle"]
    /\ loc = [t \in Threads |-> NoGuards]
    /\ timing = NoTiming
    /\ keystore = NoKeys
    /\ secondary = NoSecondary
    /\ reorged = [id \in Ids |-> "no"]
    /\ persisted = {}

\* the threads that hold a guard of mutex m
Holders(m) == {t \in Threads : m \in loc[t].guards}

\* the thread is at a statement that takes mutex m
Requests(t, m) == pc[t] = "run" /\ loc[t].todo # <<>> /\ Head(loc[t].todo) = Take(m)

\* the thread enters a call of the owner API
Enter(t) ==
    /\ pc[t] = "idle"
    /\ \E c \in LockCalls :
        loc' = [loc EXCEPT ![t] = [op |-> c.op, todo |-> Statements(c), guards |-> {}]]
    /\ pc' = [pc EXCEPT ![t] = "run"]
    /\ UNCHANGED <<trades, txlog, chain, mwc_tip, now, net, minted, last, budget, wlock,
                   timing, keystore, secondary, reorged, persisted>>

\* Mutex::lock: returns the guard once no guard of the mutex is alive
Acquire(t) ==
    /\ \E m \in {"wallet", "node"} :
        /\ Requests(t, m)
        /\ Holders(m) = {}
        /\ loc' = [loc EXCEPT ![t].todo = Tail(@), ![t].guards = @ \cup {m}]
        /\ wlock' = IF m = "wallet" THEN t ELSE wlock
    /\ UNCHANGED <<trades, txlog, chain, mwc_tip, now, net, minted, last, budget, pc,
                   timing, keystore, secondary, reorged, persisted>>

\* the guard goes out of scope
Release(t) ==
    /\ pc[t] = "run" /\ loc[t].todo # <<>>
    /\ \E m \in {"wallet", "node"} :
        /\ Head(loc[t].todo) = Drop(m)
        /\ loc' = [loc EXCEPT ![t].todo = Tail(@), ![t].guards = @ \ {m}]
        /\ wlock' = IF m = "wallet" THEN 0 ELSE wlock
    /\ UNCHANGED <<trades, txlog, chain, mwc_tip, now, net, minted, last, budget, pc,
                   timing, keystore, secondary, reorged, persisted>>

\* a statement under a guard returns its error with `?`: the call returns and its guards
\* are dropped
ErrorReturn(t) ==
    /\ pc[t] = "run" /\ loc[t].guards # {}
    /\ loc' = [loc EXCEPT ![t].todo = <<>>, ![t].guards = {}]
    /\ wlock' = IF wlock = t THEN 0 ELSE wlock
    /\ UNCHANGED <<trades, txlog, chain, mwc_tip, now, net, minted, last, budget, pc,
                   timing, keystore, secondary, reorged, persisted>>

\* the call returns
Leave(t) ==
    /\ pc[t] = "run" /\ loc[t].todo = <<>>
    /\ pc' = [pc EXCEPT ![t] = "idle"]
    /\ loc' = [loc EXCEPT ![t] = NoGuards]
    /\ UNCHANGED <<trades, txlog, chain, mwc_tip, now, net, minted, last, budget, wlock,
                   timing, keystore, secondary, reorged, persisted>>

NextLock ==
    \E t \in Threads : Enter(t) \/ Acquire(t) \/ Release(t) \/ ErrorReturn(t) \/ Leave(t)

\* a call goes on whenever it can, and a thread that waits for a mutex gets it when the
\* mutex is released again and again (the mutexes hand over fairly)
LockFairness ==
    \A t \in Threads :
        /\ SF_vars(Acquire(t))
        /\ WF_vars(Release(t))
        /\ WF_vars(Leave(t))

SpecLock == InitLock /\ [][NextLock]_vars /\ LockFairness

\* no thread asks for a mutex it holds
NoReentry == \A t \in Threads, m \in {"wallet", "node"} : Requests(t, m) => m \notin loc[t].guards

\* the wallet mutex is never asked for under a guard of the node client
OneOrder == \A t \in Threads : Requests(t, "wallet") => "node" \notin loc[t].guards

\* some running call can always go on
NotStuck ==
    (\E t \in Threads : pc[t] = "run") =>
        \E t \in Threads :
            \/ pc[t] = "run" /\ loc[t].todo = <<>>
            \/ pc[t] = "run" /\ loc[t].todo # <<>> /\ Head(loc[t].todo)[1] = "drop"
            \/ \E m \in {"wallet", "node"} : Requests(t, m) /\ Holders(m) = {}

\* C35: deadlock freedom of the owner API: no thread asks for the wallet mutex or the
\* mutex of the secondary node client while it holds it (swap_process does not hold the
\* wallet mutex when it calls swap_income_message), the two mutexes are always taken in
\* the order wallet, node client, some call can always go on, and every call returns
\* with all its guards dropped.
DeadlockFree ==
    /\ [](NoReentry /\ OneOrder /\ NotStuck)
    /\ \A t \in Threads : (pc[t] = "run") ~> (pc[t] = "idle" /\ loc[t].guards = {})

\* swap_process is inside its nested swap_income_message, under the wallet mutex and
\* the mutex of the node client, while the other thread waits for the wallet mutex
DeadlockFreeWitness ==
    \E t \in Threads :
        /\ loc[t].op = "swap_process" /\ loc[t].guards = {"wallet", "node"}
        /\ Len(loc[t].todo) <= 8
        /\ \E u \in Threads \ {t} : Requests(u, "wallet")

====
